---- MODULE Spec2Model ----
(***************************************************************************)
(* A model of bucketbird's folder layer over a flat S3-compatible object   *)
(* store: BucketService (backend/internal/service, object operations) and  *)
(* ObjectStore (backend/internal/storage/objectstore.go).                  *)
(*                                                                         *)
(* An object key is a Go string; it is modelled as the sequence of its     *)
(* characters, each a one-character string, so that HasPrefix, TrimPrefix, *)
(* Replace, SplitN and path.Clean act on characters as they do in Go.      *)
(***************************************************************************)
EXTENDS Integers, Sequences, FiniteSets, TLC

(***************************************************************************)
(* Bounds of the model.                                                    *)
(***************************************************************************)
\* Largest number of keys the store returns in one list page (S3: 1000).
MaxPage == 2
\* Number of background size recalculations launched in one behaviour.
MaxRecalc == 2
\* Largest number of keys sent in one batch delete call (the code sends 1000).
DeleteBatch == 2

\* How many refresh tokens one behaviour generates.
MaxTokens == 3

(***************************************************************************)
(* Go string functions, on sequences of characters.                        *)
(***************************************************************************)
Slash == "/"
Dot == "."

\* The byte value of a character (Go compares strings bytewise).
Ord(c) ==
    CASE c = "." -> 46 [] c = "/" -> 47
      [] c = "A" -> 65 [] c = "B" -> 66
      [] c = "a" -> 97 [] c = "b" -> 98 [] c = "c" -> 99 [] c = "e" -> 101
      [] c = "i" -> 105 [] c = "l" -> 108 [] c = "m" -> 109 [] c = "p" -> 112
      [] c = "q" -> 113 [] c = "t" -> 116 [] c = "v" -> 118 [] c = "w" -> 119
      [] c = "x" -> 120 [] c = "y" -> 121 [] c = "z" -> 122
      [] c = "(" -> 40 [] c = ")" -> 41
      [] OTHER -> 63

Min(a, b) == IF a < b THEN a ELSE b

\* s < t in Go's string order.
RECURSIVE StrLess(_, _)
StrLess(s, t) ==
    IF t = <<>> THEN FALSE
    ELSE IF s = <<>> THEN TRUE
    ELSE IF Head(s) = Head(t) THEN StrLess(Tail(s), Tail(t))
    ELSE Ord(Head(s)) < Ord(Head(t))

HasPrefix(s, p) == Len(p) <= Len(s) /\ SubSeq(s, 1, Len(p)) = p

HasSuffix(s, p) == Len(p) <= Len(s) /\ SubSeq(s, Len(s) - Len(p) + 1, Len(s)) = p

TrimPrefix(s, p) == IF HasPrefix(s, p) THEN SubSeq(s, Len(p) + 1, Len(s)) ELSE s

TrimSuffix(s, p) == IF HasSuffix(s, p) THEN SubSeq(s, 1, Len(s) - Len(p)) ELSE s

\* strings.TrimLeft(s, "/")
RECURSIVE TrimLeftSlash(_)
TrimLeftSlash(s) ==
    IF s # <<>> /\ Head(s) = Slash THEN TrimLeftSlash(Tail(s)) ELSE s

\* strings.Index(s, sub): the 1-based position of the first occurrence, 0 if none.
Index(s, sub) ==
    LET hits == {i \in 1..(Len(s) - Len(sub) + 1) : SubSeq(s, i, i + Len(sub) - 1) = sub}
    IN IF hits = {} THEN 0 ELSE CHOOSE i \in hits : \A j \in hits : i <= j

Contains(s, sub) == Index(s, sub) # 0

\* strings.Replace(s, old, new, 1) for a non-empty old.
Replace1(s, old, new) ==
    LET i == Index(s, old)
    IN IF i = 0 THEN s
       ELSE SubSeq(s, 1, i - 1) \o new \o SubSeq(s, i + Len(old), Len(s))

\* strings.SplitN(s, "/", 2)[0] for an s that contains "/".
FirstSegment(s) == SubSeq(s, 1, Index(s, <<Slash>>) - 1)

ToLowerChar(c) == CASE c = "A" -> "a" [] c = "B" -> "b" [] OTHER -> c

ToLower(s) == [i \in 1..Len(s) |-> ToLowerChar(s[i])]

\* strings.Split(s, "/"): the segments between the slashes.
RECURSIVE SplitSlash(_)
SplitSlash(s) ==
    LET i == Index(s, <<Slash>>)
    IN IF i = 0 THEN <<s>>
       ELSE <<SubSeq(s, 1, i - 1)>> \o SplitSlash(SubSeq(s, i + 1, Len(s)))

\* strings.Join(segs, "/")
RECURSIVE JoinSlash(_)
JoinSlash(segs) ==
    IF segs = <<>> THEN <<>>
    ELSE IF Len(segs) = 1 THEN segs[1]
    ELSE segs[1] \o <<Slash>> \o JoinSlash(Tail(segs))

DotDot == <<Dot, Dot>>

\* path.Clean, element by element: empty and "." elements are dropped, ".."
\* removes the element before it, or is dropped at the root, or is kept.
RECURSIVE CleanElements(_, _, _)
CleanElements(segs, rooted, out) ==
    IF segs = <<>> THEN out
    ELSE LET e == Head(segs)
             next ==
                IF e = <<>> \/ e = <<Dot>> THEN out
                ELSE IF e = DotDot
                THEN IF out # <<>> /\ out[Len(out)] # DotDot THEN SubSeq(out, 1, Len(out) - 1)
                     ELSE IF rooted THEN out
                     ELSE Append(out, e)
                ELSE Append(out, e)
         IN CleanElements(Tail(segs), rooted, next)

PathClean(p) ==
    LET rooted == p # <<>> /\ Head(p) = Slash
        body   == JoinSlash(CleanElements(SplitSlash(p), rooted, <<>>))
        out    == IF rooted THEN <<Slash>> \o body ELSE body
    IN IF out = <<>> THEN <<Dot>> ELSE out

\* The position element i takes in a stable sort by the sort keys.
Rank(keys, i) ==
    1 + Cardinality({j \in 1..Len(keys) :
            StrLess(keys[j], keys[i]) \/ (~StrLess(keys[i], keys[j]) /\ j < i)})

\* s in the stable order of its sort keys (keys[i] is the sort key of s[i]).
SortBy(s, keys) ==
    [r \in 1..Len(s) |-> s[CHOOSE i \in 1..Len(s) : Rank(keys, i) = r]]

\* The elements of a sequence, and a set of strings in Go's string order.
Range(s) == {s[i] : i \in 1..Len(s)}

RECURSIVE SetToSortedSeq(_)
SetToSortedSeq(S) ==
    IF S = {} THEN <<>>
    ELSE LET m == CHOOSE k \in S : \A j \in S : j = k \/ StrLess(k, j)
         IN <<m>> \o SetToSortedSeq(S \ {m})

(***************************************************************************)
(* The object store behind the S3 client.  store maps each key present in  *)
(* the bucket to its object; an object is its body (named after the key it *)
(* was first stored under) and its size in bytes.                          *)
(***************************************************************************)
VARIABLES
    store,      \* the bucket: [key -> [body, size]] over the keys present
    pageSize,   \* how many keys this backend returns per list page
    sizeBytes,  \* the bucket record's size_bytes column
    hpc,        \* where the request handler is
    req,        \* the request being served
    idx,        \* the handler's loop index
    acc,        \* the handler's key list (allKeysToDelete, objects)
    ret,        \* what the last request returned
    store0,     \* the bucket when the request being served started
    calls,      \* the mutating store calls the request has issued so far
    faulted,    \* whether a store call of the request failed in transport
    la,         \* ListAllObjects in progress, per thread (0: the handler)
    tasks,      \* the background recalculations
    zw,         \* the archive worker of a folder download
    zp,         \* the pipe between the worker and the handler, and the client
    auth,       \* the sessions table and the Refresh calls in progress
    bkt         \* the bucket's metadata record and the remote bucket: present or not

\* Remove and add objects.
Without(st, keys) == [k \in (DOMAIN st) \ keys |-> st[k]]

With(st, key, obj) == [k \in (DOMAIN st) \cup {key} |-> IF k = key THEN obj ELSE st[k]]

\* ListObjectsV2: one page of at most n keys with the prefix, in key order,
\* after the continuation token (token = <<>> is no token, <<k>> resumes after k).
\* A page that is cut short is truncated and carries the token of its last key;
\* an empty truncated page carries the position it was asked for.
Matching(st, prefix, token) ==
    {k \in DOMAIN st : HasPrefix(k, prefix) /\ (token = <<>> \/ StrLess(token[1], k))}

StorePage(st, prefix, token, n) ==
    LET all  == SetToSortedSeq(Matching(st, prefix, token))
        page == SubSeq(all, 1, Min(n, Len(all)))
        more == Len(all) > Len(page)
    IN [Contents  |-> [i \in 1..Len(page) |-> [Key |-> page[i], Size |-> st[page[i]].size]],
        Truncated |-> more,
        NextToken |-> IF ~more THEN <<>>
                      ELSE IF page = <<>> THEN (IF token = <<>> THEN << <<>> >> ELSE token)
                      ELSE <<page[Len(page)]>>]

\* ObjectStore.ListObjects: a single ListObjectsV2 call without a token; the
\* continuation token of the answer is not looked at.
StoreListObjects(st, prefix, n) == StorePage(st, prefix, <<>>, n).Contents

(***************************************************************************)
(* BucketService.ListObjects: the projection of a listing to the immediate *)
(* children of a prefix.  An entry keeps Key, Name and Kind; the formatted *)
(* size, the modification time and the icons are left out.                 *)
(***************************************************************************)
EmptyName == <<"(", "e", "m", "p", "t", "y", ")">>

NormalizePrefix(prefix) ==
    IF prefix # <<>> /\ ~HasSuffix(prefix, <<Slash>>) THEN prefix \o <<Slash>> ELSE prefix

\* The key with the prefix removed, as the loop body computes it.
StripPrefix(key, s3Prefix) ==
    IF s3Prefix # <<>>
    THEN LET t == TrimPrefix(key, s3Prefix)
         IN IF HasPrefix(t, <<Slash>>) THEN TrimLeftSlash(t) ELSE t
    ELSE key

FolderEntry(key, s3Prefix) ==
    LET folderRaw    == FirstSegment(key)
        folderPrefix == IF HasSuffix(s3Prefix \o folderRaw, <<Slash>>)
                        THEN s3Prefix \o folderRaw
                        ELSE s3Prefix \o folderRaw \o <<Slash>>
    IN [Key  |-> folderPrefix,
        Name |-> IF folderRaw = <<>> THEN EmptyName ELSE folderRaw,
        Kind |-> "folder"]

FileEntry(key, s3Prefix) == [Key |-> s3Prefix \o key, Name |-> key, Kind |-> "file"]

\* The grouping loop: acc = [folders, files], folders in order of first appearance.
RECURSIVE GroupObjects(_, _, _)
GroupObjects(objects, s3Prefix, grp) ==
    IF objects = <<>> THEN grp
    ELSE LET raw  == Head(objects).Key
             key  == StripPrefix(raw, s3Prefix)
             next ==
                IF s3Prefix # <<>> /\ ~HasPrefix(raw, s3Prefix) THEN grp
                ELSE IF key = <<>> THEN grp
                ELSE IF Contains(key, <<Slash>>)
                THEN LET f == FolderEntry(key, s3Prefix)
                     IN IF \E i \in 1..Len(grp.folders) : grp.folders[i].Key = f.Key
                        THEN grp
                        ELSE [grp EXCEPT !.folders = Append(@, f)]
                ELSE [grp EXCEPT !.files = Append(@, FileEntry(key, s3Prefix))]
         IN GroupObjects(Tail(objects), s3Prefix, next)

\* The sort keys: a folder's key, a file's name in lower case.
FolderSortKeys(folders) == [i \in 1..Len(folders) |-> folders[i].Key]

FileSortKeys(files) == [i \in 1..Len(files) |-> ToLower(files[i].Name)]

\* sort.Slice is an insertion sort below twelve elements, hence stable here.
Project(objects, s3Prefix) ==
    LET g == GroupObjects(objects, s3Prefix, [folders |-> <<>>, files |-> <<>>])
    IN SortBy(g.folders, FolderSortKeys(g.folders)) \o SortBy(g.files, FileSortKeys(g.files))

ServiceListObjects(st, prefix, n) ==
    LET s3Prefix == NormalizePrefix(prefix)
    IN Project(StoreListObjects(st, s3Prefix, n), s3Prefix)

(***************************************************************************)
(* ObjectStore: the adapter over the S3 client.                            *)
(***************************************************************************)
\* url.PathEscape on the characters of the model: "/" and the parentheses
\* are percent-encoded, letters and "." are not.
PathEscapeChar(c) ==
    CASE c = "/" -> "%2F" [] c = "(" -> "%28" [] c = ")" -> "%29" [] OTHER -> c

\* strings.ReplaceAll(url.PathEscape(sourceKey), "%2F", "/")
EscapedKey(sourceKey) ==
    [i \in 1..Len(sourceKey) |->
        IF PathEscapeChar(sourceKey[i]) = "%2F" THEN "/" ELSE PathEscapeChar(sourceKey[i])]

\* The key the store reads from an x-amz-copy-source (it percent-decodes it).
UnescapeChar(c) == CASE c = "%2F" -> "/" [] c = "%28" -> "(" [] c = "%29" -> ")" [] OTHER -> c

CopySourceKey(escaped) == [i \in 1..Len(escaped) |-> UnescapeChar(escaped[i])]

\* A copy that takes every object under the source key along.
StoreCopyTree(st, sourceKey, destinationKey) ==
    [k \in (DOMAIN st) \cup {destinationKey \o TrimPrefix(j, sourceKey) :
                                j \in {i \in DOMAIN st : HasPrefix(i, sourceKey)}} |->
        IF \E j \in DOMAIN st : HasPrefix(j, sourceKey) /\ k = destinationKey \o TrimPrefix(j, sourceKey)
        THEN st[CHOOSE j \in DOMAIN st :
                    HasPrefix(j, sourceKey) /\ k = destinationKey \o TrimPrefix(j, sourceKey)]
        ELSE st[k]]

\* ObjectStore.CopyObject when the transport does not fail: the store answers
\* NoSuchKey for a source that does not exist, else writes the destination.
CopyFails(st, sourceKey) == CopySourceKey(EscapedKey(sourceKey)) \notin DOMAIN st

StoreCopyObject(st, sourceKey, destinationKey) ==
    With(st, destinationKey, st[CopySourceKey(EscapedKey(sourceKey))])

\* A chunk whose end is one short of the end of the list.
DeleteChunkOffByOne(keys, start) ==
    SubSeq(keys, start + 1, Min(start + DeleteBatch, Len(keys) - 1))

\* ObjectStore.DeleteObjects: the chunk that starts after `start` keys.
DeleteChunk(keys, start) == SubSeq(keys, start + 1, Min(start + DeleteBatch, Len(keys)))

\* One batch delete call: quiet, and a key that does not exist is no error.
StoreDeleteChunk(st, chunk) == Without(st, Range(chunk))

\* ObjectStore.ListAllObjects: the state of the loop, and one turn of it on the
\* answer `out` of the store.  A failed request returns nil and the error.
ListAllStart(prefix) ==
    [prefix |-> prefix, token |-> <<>>, result |-> <<>>, status |-> "more", sawEmpty |-> FALSE]

ListAllIdle ==
    [prefix |-> <<>>, token |-> <<>>, result |-> <<>>, status |-> "idle", sawEmpty |-> FALSE]

\* A failure that hands on the pages read before it.
ListAllFailPartial(l) == [l EXCEPT !.status = "err"]

ListAllFail(l) == [l EXCEPT !.result = <<>>, !.status = "err"]

\* A loop that stops at an empty page.
ListAllStepStopOnEmpty(l, out) ==
    [l EXCEPT !.result   = @ \o out.Contents,
              !.token    = IF out.Truncated /\ out.Contents # <<>> THEN out.NextToken ELSE @,
              !.status   = IF out.Truncated /\ out.Contents # <<>> THEN "more" ELSE "done",
              !.sawEmpty = @ \/ (out.Contents = <<>> /\ out.Truncated)]

ListAllStep(l, out) ==
    [l EXCEPT !.result   = @ \o out.Contents,
              !.token    = IF out.Truncated /\ out.NextToken # <<>> THEN out.NextToken ELSE @,
              !.status   = IF out.Truncated /\ out.NextToken # <<>> THEN "more" ELSE "done",
              !.sawEmpty = @ \/ (out.Contents = <<>> /\ out.Truncated)]

ResultKeys(result) == [i \in 1..Len(result) |-> result[i].Key]

RECURSIVE SumSizes(_)
SumSizes(result) ==
    IF result = <<>> THEN 0 ELSE Head(result).Size + SumSizes(Tail(result))

\* A total that counts the objects.
CalculateBucketCount(result) == Len(result)

\* ObjectStore.CalculateBucketSize, on the listing ListAllObjects returned.
CalculateBucketSize(result) == SumSizes(result)

Threads == 0..MaxRecalc
TaskIds == 1..MaxRecalc

hvars == <<hpc, req, idx, acc, ret, store0, calls, faulted>>
vars ==
    <<store, pageSize, auth, bkt, sizeBytes, hpc, req, idx, acc, ret, store0, calls, faulted, la, tasks, zw, zp>>

\* One page request of thread t: it fails, or the store answers with a page of
\* its page size, or with an empty page that carries a token.
ListPage(t) ==
    /\ la[t].status = "more"
    /\ \/ la' = [la EXCEPT ![t] = ListAllFail(@)]
       \/ la' = [la EXCEPT ![t] =
                    ListAllStep(@, StorePage(store, @.prefix, @.token, pageSize))]
       \/ /\ StorePage(store, la[t].prefix, la[t].token, 0).Truncated
          /\ la' = [la EXCEPT ![t] = ListAllStep(@, StorePage(store, @.prefix, @.token, 0))]

(***************************************************************************)
(* Keys and requests of the model.                                         *)
(***************************************************************************)
kA == <<"a", "/">>
kAx == <<"a", "/", "x">>
kAy == <<"a", "/", "y", "/">>
kAyz == <<"a", "/", "y", "/", "z">>
kX == <<"x">>
kB == <<"b", "/">>
kC == <<"c", "/">>
kQ == <<"q">>

IsFolderKey(key) == HasSuffix(key, <<Slash>>)

\* The object first stored under a key: a folder marker is empty.
ObjectOf(key) == [body |-> key, size |-> IF IsFolderKey(key) THEN 0 ELSE Len(key)]

MkStore(keys) == [k \in keys |-> ObjectOf(k)]

TotalSize(st) == SumSizes(StorePage(st, <<>>, <<>>, Cardinality(DOMAIN st)).Contents)

CoreKeys == {kA, kAx, kAyz, kX}

DeleteRequests == {<<kA>>, <<kX>>, <<kAx, kA>>, <<kAy>>, <<kC>>, <<kX, kC>>, <<>>}

MoveRequests == {<<kA, kB>>, <<kX, kQ>>, <<kAy, kB>>, <<kC, kB>>}

NoRet ==
    [op |-> "none", err |-> FALSE, Success |-> FALSE, Message |-> "", Key |-> <<>>,
     Deleted |-> <<>>, Failed |-> <<>>, Entries |-> <<>>]

NoReq == [op |-> "none", keys |-> <<>>, src |-> <<>>, dst |-> <<>>, size |-> 0]

\* A recalculation that is not running; listErr and wrote tell how its last run
\* went, seq its place in the order the recalculations were launched in.
FreeTask == [pc |-> "free", total |-> 0, listErr |-> FALSE, wrote |-> FALSE, seq |-> 0]

NewTask == [FreeTask EXCEPT !.pc = "start"]

\* No download yet: no worker, no pipe.
NoWorker ==
    [pc |-> "none", i |-> 0, objs |-> <<>>, prefix |-> <<>>, name |-> <<>>,
     entries |-> <<>>, open |-> {}, fetched |-> {}]

NoPipe ==
    [pending |-> FALSE, rclosed |-> FALSE, wclosed |-> FALSE, werr |-> FALSE,
     gone |-> FALSE, ctxDone |-> FALSE, early |-> FALSE]

\* The clients that call the auth service.
Callers == 1..2

SessionIds == 1..2

\* A client that is not in a Refresh call: tok the token presented, sid the
\* session found, res and out what the call returned; late and fresh tell what
\* was known of the token when the call started.
IdleCall ==
    [pc |-> "idle", tok |-> 0, sid |-> 0, res |-> "none", out |-> 0,
     late |-> FALSE, fresh |-> FALSE]

\* No session, no Refresh call. issued counts the refresh tokens generated;
\* spent are the tokens a successful Refresh presented, live the tokens
\* returned to a client and since then neither presented with success, nor
\* logged out, nor expired.
NoAuth ==
    [sessions |-> <<>>, issued |-> 0, rc |-> [c \in Callers |-> IdleCall],
     spent |-> {}, live |-> {}]

\* The bucket has its metadata record and exists in the object store.
LiveBucket == [record |-> TRUE, remote |-> TRUE]

Init ==
    /\ store \in {MkStore(S) : S \in SUBSET CoreKeys}
    /\ pageSize \in 1..MaxPage
    /\ sizeBytes = TotalSize(store)
    /\ hpc = "idle"
    /\ req = NoReq
    /\ idx = 0
    /\ acc = <<>>
    /\ ret = NoRet
    /\ store0 = store
    /\ calls = <<>>
    /\ faulted = FALSE
    /\ la = [t \in Threads |-> ListAllIdle]
    /\ tasks = [t \in TaskIds |-> FreeTask]
    /\ zw = NoWorker
    /\ zp = NoPipe
    /\ auth = NoAuth
    /\ bkt = LiveBucket

\* The handler returns: its locals are dead.
Return(r) ==
    /\ ret' = r
    /\ hpc' = "idle"
    /\ idx' = 0
    /\ acc' = <<>>
    /\ la' = [la EXCEPT ![0] = ListAllIdle]

\* go func() { s.recalculateBucketSize(...) }(): the first free task starts.
HasFreeTask == \E t \in TaskIds : tasks[t].pc = "free"

FirstFreeTask == CHOOSE t \in TaskIds : tasks[t].pc = "free" /\ \A u \in 1..(t - 1) : tasks[u].pc # "free"

NoTaskRunning == \A t \in TaskIds : tasks[t].pc = "free"

\* The launches are numbered from 1 while some recalculation is running; a
\* launch when none is running starts the numbering, and the record of what
\* the finished ones did, again.
LastSeq == CHOOSE n \in 0..MaxRecalc + 1 :
               /\ \A t \in TaskIds : tasks[t].seq <= n
               /\ (n = 0 \/ \E t \in TaskIds : tasks[t].seq = n)

Launch ==
    IF NoTaskRunning
    THEN [t \in TaskIds |-> IF t = 1 THEN [NewTask EXCEPT !.seq = 1] ELSE FreeTask]
    ELSE [tasks EXCEPT ![FirstFreeTask] = [NewTask EXCEPT !.seq = LastSeq + 1]]

(***************************************************************************)
(* BucketService.DeleteObjects                                             *)
(***************************************************************************)
DeleteFailed(keys, msg) ==
    [NoRet EXCEPT !.op = "delete", !.err = TRUE, !.Message = msg, !.Failed = keys]

\* An outcome that reports the requested keys as failed.
DeleteDoneAsFailed(deleted) ==
    [NoRet EXCEPT !.op = "delete", !.Success = TRUE, !.Failed = deleted]

DeleteDone(deleted) ==
    [NoRet EXCEPT !.op = "delete", !.Success = TRUE, !.Deleted = deleted]

\* An expansion that adds the marker alone.
ExpandMarkerOnly(keys, result, folderKey) == keys \o <<folderKey>>

\* The keys a listed folder adds to allKeysToDelete: its objects, then its marker.
ExpandFolder(keys, result, folderKey) == keys \o ResultKeys(result) \o <<folderKey>>

StartDelete(keys) ==
    /\ hpc = "idle"
    /\ HasFreeTask
    /\ req' = [NoReq EXCEPT !.op = "delete", !.keys = keys]
    /\ hpc' = "del_expand"
    /\ idx' = 1
    /\ acc' = <<>>
    /\ ret' = NoRet
    /\ store0' = store
    /\ calls' = <<>>
    /\ faulted' = FALSE
    /\ UNCHANGED <<zw, zp, store, pageSize, auth, bkt, sizeBytes, la, tasks>>

\* The expansion loop reaches the next key: a folder key starts a listing.
DelExpand ==
    /\ hpc = "del_expand"
    /\ la[0].status = "idle"
    /\ idx <= Len(req.keys)
    /\ IF IsFolderKey(req.keys[idx])
       THEN /\ la' = [la EXCEPT ![0] = ListAllStart(req.keys[idx])]
            /\ UNCHANGED <<idx, acc>>
       ELSE /\ acc' = Append(acc, req.keys[idx])
            /\ idx' = idx + 1
            /\ UNCHANGED la
    /\ UNCHANGED <<zw, zp, store, pageSize, auth, bkt, sizeBytes, hpc, req, ret, store0, calls, faulted, tasks>>

DelListPage ==
    /\ hpc = "del_expand"
    /\ ListPage(0)
    /\ faulted' = (faulted \/ la'[0].status = "err")
    /\ UNCHANGED <<zw, zp, store, pageSize, auth, bkt, sizeBytes, hpc, req, idx, acc, ret, store0, calls, tasks>>

\* The listing of a folder key returned: its keys and the marker are added.
DelListed ==
    /\ hpc = "del_expand"
    /\ la[0].status = "done"
    /\ acc' = ExpandFolder(acc, la[0].result, req.keys[idx])
    /\ idx' = idx + 1
    /\ la' = [la EXCEPT ![0] = ListAllIdle]
    /\ UNCHANGED <<zw, zp, store, pageSize, auth, bkt, sizeBytes, hpc, req, ret, store0, calls, faulted, tasks>>

DelListFailed ==
    /\ hpc = "del_expand"
    /\ la[0].status = "err"
    /\ Return(DeleteFailed(req.keys, "list"))
    /\ UNCHANGED <<zw, zp, store, pageSize, auth, bkt, sizeBytes, req, store0, calls, faulted, tasks>>

\* The loop is over: nothing to delete, or the first chunk is due.
DelExpanded ==
    /\ hpc = "del_expand"
    /\ la[0].status = "idle"
    /\ idx > Len(req.keys)
    /\ IF Len(acc) = 0
       THEN Return(DeleteDone(<<>>))
       ELSE /\ hpc' = "del_send"
            /\ idx' = 0
            /\ UNCHANGED <<acc, ret, la>>
    /\ UNCHANGED <<zw, zp, store, pageSize, auth, bkt, sizeBytes, req, store0, calls, faulted, tasks>>

\* One batch delete call fails: ObjectStore.DeleteObjects returns its error.
DelSendFailed ==
    /\ hpc = "del_send"
    /\ Return(DeleteFailed(req.keys, "delete"))
    /\ faulted' = TRUE
    /\ UNCHANGED <<zw, zp, store, pageSize, auth, bkt, sizeBytes, req, store0, calls, tasks>>

\* One batch delete call succeeds; after the last one the recalculation is
\* launched and the request returns.
DelSend ==
    /\ hpc = "del_send"
    /\ store' = StoreDeleteChunk(store, DeleteChunk(acc, idx))
    /\ calls' = Append(calls, [call |-> "delete", keys |-> DeleteChunk(acc, idx)])
    /\ IF idx + DeleteBatch < Len(acc)
       THEN /\ idx' = idx + DeleteBatch
            /\ UNCHANGED <<hpc, acc, ret, la, tasks>>
       ELSE /\ Return(DeleteDone(req.keys))
            /\ tasks' = Launch
    /\ UNCHANGED <<zw, zp, pageSize, auth, bkt, sizeBytes, req, store0, faulted>>

DeleteNext ==
    \/ \E keys \in DeleteRequests : StartDelete(keys)
    \/ DelExpand
    \/ DelListPage
    \/ DelListed
    \/ DelListFailed
    \/ DelExpanded
    \/ DelSendFailed
    \/ DelSend

(***************************************************************************)
(* BucketService.RenameObject                                              *)
(***************************************************************************)
OpFailed(op, msg) == [NoRet EXCEPT !.op = op, !.err = TRUE, !.Message = msg]

OpDone(op) == [NoRet EXCEPT !.op = op, !.Success = TRUE]

\* The destination key of an object of the folder being renamed.
NewKey(oldKey, sourceKey, destinationKey) == Replace1(oldKey, sourceKey, destinationKey)

\* A folder source starts with the listing of the folder, a file with its copy.
StartRename(src, dst) ==
    /\ hpc = "idle"
    /\ req' = [NoReq EXCEPT !.op = "rename", !.src = src, !.dst = dst]
    /\ IF IsFolderKey(src)
       THEN /\ hpc' = "ren_list"
            /\ la' = [la EXCEPT ![0] = ListAllStart(src)]
       ELSE /\ hpc' = "ren_file"
            /\ UNCHANGED la
    /\ idx' = 1
    /\ acc' = <<>>
    /\ ret' = NoRet
    /\ store0' = store
    /\ calls' = <<>>
    /\ faulted' = FALSE
    /\ UNCHANGED <<zw, zp, store, pageSize, auth, bkt, sizeBytes, tasks>>

RenListPage ==
    /\ hpc = "ren_list"
    /\ ListPage(0)
    /\ faulted' = (faulted \/ la'[0].status = "err")
    /\ UNCHANGED <<zw, zp, store, pageSize, auth, bkt, sizeBytes, hpc, req, idx, acc, ret, store0, calls, tasks>>

RenListFailed ==
    /\ hpc = "ren_list"
    /\ la[0].status = "err"
    /\ Return(OpFailed("rename", "list"))
    /\ UNCHANGED <<zw, zp, store, pageSize, auth, bkt, sizeBytes, req, store0, calls, faulted, tasks>>

RenListed ==
    /\ hpc = "ren_list"
    /\ la[0].status = "done"
    /\ acc' = ResultKeys(la[0].result)
    /\ idx' = 1
    /\ hpc' = "ren_copy"
    /\ la' = [la EXCEPT ![0] = ListAllIdle]
    /\ UNCHANGED <<zw, zp, store, pageSize, auth, bkt, sizeBytes, req, ret, store0, calls, faulted, tasks>>

\* A copy loop that undoes the copies made when a copy fails.
RenCopyRollback ==
    /\ hpc = "ren_copy"
    /\ idx <= Len(acc)
    /\ \/ /\ Return([OpFailed("rename", "copy") EXCEPT !.Key = acc[idx]])
          /\ faulted' = (faulted \/ ~CopyFails(store, acc[idx]))
          /\ store' = store0
          /\ UNCHANGED calls
       \/ /\ ~CopyFails(store, acc[idx])
          /\ store' = StoreCopyObject(store, acc[idx], NewKey(acc[idx], req.src, req.dst))
          /\ calls' = Append(calls, [call |-> "copy", keys |-> <<acc[idx], NewKey(acc[idx], req.src, req.dst)>>])
          /\ idx' = idx + 1
          /\ UNCHANGED <<hpc, acc, ret, la, faulted>>
    /\ UNCHANGED <<zw, zp, pageSize, auth, bkt, sizeBytes, req, store0, tasks>>

\* The copy of one listed object: it fails (the transport, or the store for a
\* missing source) and the request returns the error, which names the object,
\* or the object is copied.
RenCopy ==
    /\ hpc = "ren_copy"
    /\ idx <= Len(acc)
    /\ \/ /\ Return([OpFailed("rename", "copy") EXCEPT !.Key = acc[idx]])
          /\ faulted' = (faulted \/ ~CopyFails(store, acc[idx]))
          /\ UNCHANGED <<store, calls>>
       \/ /\ ~CopyFails(store, acc[idx])
          /\ store' = StoreCopyObject(store, acc[idx], NewKey(acc[idx], req.src, req.dst))
          /\ calls' = Append(calls, [call |-> "copy", keys |-> <<acc[idx], NewKey(acc[idx], req.src, req.dst)>>])
          /\ idx' = idx + 1
          /\ UNCHANGED <<hpc, acc, ret, la, faulted>>
    /\ UNCHANGED <<zw, zp, pageSize, auth, bkt, sizeBytes, req, store0, tasks>>

\* After the loop: the copy of the folder marker itself.
RenCopyMarker ==
    /\ hpc = "ren_copy"
    /\ idx > Len(acc)
    /\ \/ /\ Return(OpFailed("rename", "marker"))
          /\ faulted' = (faulted \/ ~CopyFails(store, req.src))
          /\ UNCHANGED <<store, calls>>
       \/ /\ ~CopyFails(store, req.src)
          /\ store' = StoreCopyObject(store, req.src, req.dst)
          /\ calls' = Append(calls, [call |-> "copy", keys |-> <<req.src, req.dst>>])
          /\ hpc' = "ren_delete"
          /\ UNCHANGED <<idx, acc, ret, la, faulted>>
    /\ UNCHANGED <<zw, zp, pageSize, auth, bkt, sizeBytes, req, store0, tasks>>

\* The copy of a regular file.
RenCopyFile ==
    /\ hpc = "ren_file"
    /\ \/ /\ Return(OpFailed("rename", "copy"))
          /\ faulted' = (faulted \/ ~CopyFails(store, req.src))
          /\ UNCHANGED <<store, calls>>
       \/ /\ ~CopyFails(store, req.src)
          /\ store' = StoreCopyObject(store, req.src, req.dst)
          /\ calls' = Append(calls, [call |-> "copy", keys |-> <<req.src, req.dst>>])
          /\ hpc' = "ren_delete"
          /\ UNCHANGED <<idx, acc, ret, la, faulted>>
    /\ UNCHANGED <<zw, zp, pageSize, auth, bkt, sizeBytes, req, store0, tasks>>

\* store.DeleteObjects(ctx, bucketName, []string{sourceKey}), for a folder and
\* for a file: one chunk of one key.
RenamedKeys(sourceKey) == <<sourceKey>>

RenDelete ==
    /\ hpc = "ren_delete"
    /\ \/ /\ Return(OpFailed("rename", "delete"))
          /\ faulted' = TRUE
          /\ UNCHANGED <<store, calls>>
       \/ /\ store' = StoreDeleteChunk(store, DeleteChunk(RenamedKeys(req.src), 0))
          /\ calls' = Append(calls, [call |-> "delete", keys |-> DeleteChunk(RenamedKeys(req.src), 0)])
          /\ Return(OpDone("rename"))
          /\ UNCHANGED faulted
    /\ UNCHANGED <<zw, zp, pageSize, auth, bkt, sizeBytes, req, store0, tasks>>

RenameNext ==
    \/ \E m \in MoveRequests : StartRename(m[1], m[2])
    \/ RenListPage
    \/ RenListFailed
    \/ RenListed
    \/ RenCopy
    \/ RenCopyMarker
    \/ RenCopyFile
    \/ RenDelete

(***************************************************************************)
(* BucketService.CopyObject: one store copy of the source key, whatever    *)
(* the key is.                                                             *)
(***************************************************************************)
ServiceCopyObject(src, dst) ==
    /\ hpc = "idle"
    /\ req' = [NoReq EXCEPT !.op = "copy", !.src = src, !.dst = dst]
    /\ store0' = store
    /\ \/ /\ Return(OpFailed("copy", "copy"))
          /\ calls' = <<>>
          /\ faulted' = ~CopyFails(store, src)
          /\ UNCHANGED store
       \/ /\ ~CopyFails(store, src)
          /\ store' = StoreCopyObject(store, src, dst)
          /\ calls' = <<[call |-> "copy", keys |-> <<src, dst>>]>>
          /\ faulted' = FALSE
          /\ Return(OpDone("copy"))
    /\ UNCHANGED <<zw, zp, pageSize, auth, bkt, sizeBytes, tasks>>

CopyNext == \E m \in MoveRequests : ServiceCopyObject(m[1], m[2])

Next == DeleteNext \/ RenameNext \/ CopyNext

Spec == Init /\ [][Next]_vars

(***************************************************************************)
(* BucketService.ListObjects as a request of its own: one store page, then *)
(* the projection.  The bucket is any set of the keys below.               *)
(***************************************************************************)
kAyw == <<"a", "/", "y", "/", "w">>
kAB == <<"a", "/", "B">>
kASlashX == <<"a", "/", "/", "x">>
kSlashX == <<"/", "x">>
kBx == <<"B", "/", "x">>

ListKeys == {kA, kAx, kAyz, kAyw, kAB, kASlashX, kSlashX, kX, kBx}

ListPrefixes == {<<>>, kA, <<"a">>, kAy}

ListObjectsRequest(prefix) ==
    /\ hpc = "idle"
    /\ req' = [NoReq EXCEPT !.op = "list", !.src = prefix]
    /\ store0' = store
    /\ calls' = <<>>
    /\ \/ /\ Return(OpFailed("list", "list"))
          /\ faulted' = TRUE
       \/ /\ Return([NoRet EXCEPT !.op = "list", !.Success = TRUE,
                                  !.Entries = ServiceListObjects(store, prefix, pageSize)])
          /\ faulted' = FALSE
    /\ UNCHANGED <<zw, zp, store, pageSize, auth, bkt, sizeBytes, tasks>>

InitList ==
    /\ store \in {MkStore(S) : S \in SUBSET ListKeys}
    /\ pageSize \in 1..MaxPage
    /\ sizeBytes = TotalSize(store)
    /\ hpc = "idle"
    /\ req = NoReq
    /\ idx = 0
    /\ acc = <<>>
    /\ ret = NoRet
    /\ store0 = store
    /\ calls = <<>>
    /\ faulted = FALSE
    /\ la = [t \in Threads |-> ListAllIdle]
    /\ tasks = [t \in TaskIds |-> FreeTask]
    /\ zw = NoWorker
    /\ zp = NoPipe
    /\ auth = NoAuth
    /\ bkt = LiveBucket

NextList == \E prefix \in ListPrefixes : ListObjectsRequest(prefix)

SpecList == InitList /\ [][NextList]_vars

(***************************************************************************)
(* BucketService.ZipFolder and Handler.DownloadObject for a folder key:    *)
(* the handler lists the folder, starts the archive worker on the write    *)
(* end of a pipe and copies the read end to the HTTP response.             *)
(*                                                                         *)
(* zip.Writer writes through a bufio.Writer: a write of the worker stays   *)
(* in the buffer, or flushes it into the pipe; a flush blocks until the    *)
(* handler has read it or has closed the read end; after a failed flush    *)
(* every later write fails (zp.werr).                                      *)
(***************************************************************************)
kAEvil == <<"a", "/", ".", ".", "/", "e", "v", "i", "l">>
kAEscB == <<"a", "/", "a", "/", ".", ".", "/", ".", ".", "/", "b">>

ZipFixtures == {{kA, kAx, kAEvil, kAEscB}, {kAx, kAy, kAyz}, {kAx, kASlashX}, {kA}, {}}

ZipPrefixes == {kA}

\* The name of an object in the archive.
SafePath(key, prefix) == TrimPrefix(PathClean(TrimPrefix(key, prefix)), <<Slash>>)

\* SafePath over the keys and prefixes of the fixtures, as a table.
ZipKeys == UNION ZipFixtures

SafePaths == {<<p, k, SafePath(k, p)>> : p \in ZipPrefixes, k \in ZipKeys}

SafePathOf(key, prefix) == (CHOOSE t \in SafePaths : t[1] = prefix /\ t[2] = key)[3]

\* A guard that rejects the empty name and "." alone.
UnsafePathEmptyOnly(safePath) == safePath = <<>> \/ safePath = <<Dot>>

\* The zip-slip guard.
UnsafePath(safePath) ==
    \/ safePath = <<>>
    \/ safePath = <<Dot>>
    \/ HasPrefix(safePath, DotDot)
    \/ Contains(safePath, <<Dot, Dot, Slash>>)

\* The download's file name.
ZipFileName(prefix) ==
    IF TrimSuffix(prefix, <<Slash>>) = <<>>
    THEN <<"download", ".zip">>
    ELSE TrimSuffix(prefix, <<Slash>>) \o <<".zip">>

\* A handler that returns without closing the read end.
LeakReaderOnReturn == FALSE

\* defer reader.Close() in the handler.
CloseReaderOnReturn == TRUE

StartZip(prefix) ==
    /\ hpc = "idle"
    /\ zw.pc \in {"none", "done"}
    /\ req' = [NoReq EXCEPT !.op = "zip", !.src = prefix]
    /\ hpc' = "zip_list"
    /\ la' = [la EXCEPT ![0] = ListAllStart(prefix)]
    /\ idx' = 0
    /\ acc' = <<>>
    /\ ret' = NoRet
    /\ store0' = store
    /\ calls' = <<>>
    /\ faulted' = FALSE
    /\ zw' = NoWorker
    /\ zp' = NoPipe
    /\ UNCHANGED <<store, pageSize, auth, bkt, sizeBytes, tasks>>

ZipListPage ==
    /\ hpc = "zip_list"
    /\ ListPage(0)
    /\ faulted' = (faulted \/ la'[0].status = "err")
    /\ UNCHANGED <<zw, zp, store, pageSize, auth, bkt, sizeBytes, hpc, req, idx, acc, ret, store0, calls, tasks>>

ZipListFailed ==
    /\ hpc = "zip_list"
    /\ la[0].status = "err"
    /\ Return(OpFailed("zip", "list"))
    /\ UNCHANGED <<zw, zp, store, pageSize, auth, bkt, sizeBytes, req, store0, calls, faulted, tasks>>

\* The listing returned: the pipe is made and the worker started; ZipFolder
\* returns the read end and the handler starts io.Copy.
ZipListed ==
    /\ hpc = "zip_list"
    /\ la[0].status = "done"
    /\ zw' = [NoWorker EXCEPT !.pc = "loop", !.i = 1, !.objs = ResultKeys(la[0].result),
                              !.prefix = req.src, !.name = ZipFileName(req.src)]
    /\ zp' = NoPipe
    /\ hpc' = "zip_copy"
    /\ la' = [la EXCEPT ![0] = ListAllIdle]
    /\ UNCHANGED <<store, pageSize, auth, bkt, sizeBytes, req, idx, acc, ret, store0, calls, faulted, tasks>>

zkey == zw.objs[zw.i]

\* The worker goes on to the next object and leaves the body open.
NextObjectBodyOpen(w) == [w EXCEPT !.i = @ + 1, !.pc = "loop"]

\* The worker goes on to the next object, the body of this one closed.
NextObject(w) == [w EXCEPT !.i = @ + 1, !.pc = "loop", !.open = @ \ {w.objs[w.i]}]

zrest == <<store, pageSize, auth, bkt, sizeBytes, hpc, req, idx, acc, ret, store0, calls, faulted, la, tasks>>

\* The loop is over: the deferred zipWriter.Close() is due.
WorkerLoopEnd ==
    /\ zw.pc = "loop"
    /\ zw.i > Len(zw.objs)
    /\ zw' = [zw EXCEPT !.pc = "zipclose"]
    /\ UNCHANGED <<zp, zrest>>

\* The folder marker itself is skipped.
WorkerSkipMarker ==
    /\ zw.pc = "loop"
    /\ zw.i <= Len(zw.objs)
    /\ zkey = zw.prefix
    /\ zw' = [zw EXCEPT !.i = @ + 1]
    /\ UNCHANGED <<zp, zrest>>

\* store.GetObject fails (transport, a cancelled context, a missing key): the
\* object is skipped.
WorkerGetFailed ==
    /\ zw.pc = "loop"
    /\ zw.i <= Len(zw.objs)
    /\ zkey # zw.prefix
    /\ zw' = [zw EXCEPT !.i = @ + 1]
    /\ UNCHANGED <<zp, zrest>>

\* store.GetObject returns the object, its body open.
WorkerGet ==
    /\ zw.pc = "loop"
    /\ zw.i <= Len(zw.objs)
    /\ zkey # zw.prefix
    /\ ~zp.ctxDone
    /\ zkey \in DOMAIN store
    /\ zw' = [zw EXCEPT !.pc = "fetched", !.open = @ \cup {zkey}, !.fetched = @ \cup {zkey}]
    /\ UNCHANGED <<zp, zrest>>

\* The sanitized path is unsafe: the body is closed and the object skipped.
WorkerUnsafe ==
    /\ zw.pc = "fetched"
    /\ UnsafePath(SafePathOf(zkey, zw.prefix))
    /\ zw' = NextObject(zw)
    /\ UNCHANGED <<zp, zrest>>

NewEntry(key, prefix) == [Name |-> SafePathOf(key, prefix), Key |-> key, Complete |-> FALSE]

\* A write of the worker through the zip writer, from position `from`: it
\* fails at once, or succeeds in the buffer, or flushes and blocks.
\* onOk and onFail are the worker after the write.
WorkerWrite(onOk, onFail, waitPc) ==
    \/ /\ zp.werr
       /\ zw' = onFail
       /\ UNCHANGED zp
    \/ /\ ~zp.werr
       /\ zw' = onOk
       /\ UNCHANGED zp
    \/ /\ ~zp.werr /\ zp.rclosed
       /\ zw' = onFail
       /\ zp' = [zp EXCEPT !.werr = TRUE]
    \/ /\ ~zp.werr /\ ~zp.rclosed
       /\ zw' = [zw EXCEPT !.pc = waitPc]
       /\ zp' = [zp EXCEPT !.pending = TRUE]

\* A blocked write returns: the handler has read the data, or has closed the
\* read end.
WorkerWake(onOk, onFail) ==
    \/ /\ ~zp.pending
       /\ zw' = onOk
       /\ UNCHANGED zp
    \/ /\ zp.pending /\ zp.rclosed
       /\ zw' = onFail
       /\ zp' = [zp EXCEPT !.pending = FALSE, !.werr = TRUE]

Created(w) == [w EXCEPT !.pc = "created", !.entries = Append(@, NewEntry(w.objs[w.i], w.prefix))]

\* zipWriter.Create(safePath)
WorkerCreate ==
    /\ zw.pc = "fetched"
    /\ ~UnsafePath(SafePathOf(zkey, zw.prefix))
    /\ WorkerWrite(Created(zw), NextObject(zw), "create_wait")
    /\ UNCHANGED zrest

WorkerCreateWake ==
    /\ zw.pc = "create_wait"
    /\ WorkerWake(Created(zw), NextObject(zw))
    /\ UNCHANGED zrest

Copied(w) ==
    NextObject([w EXCEPT !.entries = [@ EXCEPT ![Len(@)] = [@ EXCEPT !.Complete = TRUE]]])

\* io.Copy(writer, objData.Body): reading the body fails, or the writes go as
\* any write; the body is closed either way.
WorkerCopy ==
    /\ zw.pc = "created"
    /\ \/ /\ zw' = NextObject(zw)
          /\ UNCHANGED zp
       \/ WorkerWrite(Copied(zw), NextObject(zw), "copy_wait")
    /\ UNCHANGED zrest

WorkerCopyWake ==
    /\ zw.pc = "copy_wait"
    /\ WorkerWake(Copied(zw), NextObject(zw))
    /\ UNCHANGED zrest

\* The deferred calls: zipWriter.Close() flushes the central directory, then
\* pw.Close() closes the write end.
WorkerZipClose ==
    /\ zw.pc = "zipclose"
    /\ \/ /\ zp.werr \/ zp.rclosed
          /\ zw' = [zw EXCEPT !.pc = "done"]
          /\ zp' = [zp EXCEPT !.wclosed = TRUE]
       \/ /\ ~zp.werr /\ ~zp.rclosed
          /\ zw' = [zw EXCEPT !.pc = "close_wait"]
          /\ zp' = [zp EXCEPT !.pending = TRUE]
    /\ UNCHANGED zrest

WorkerCloseWake ==
    /\ zw.pc = "close_wait"
    /\ \/ ~zp.pending
       \/ zp.pending /\ zp.rclosed
    /\ zw' = [zw EXCEPT !.pc = "done"]
    /\ zp' = [zp EXCEPT !.pending = FALSE, !.wclosed = TRUE]
    /\ UNCHANGED zrest

WorkerNext ==
    \/ WorkerLoopEnd
    \/ WorkerSkipMarker
    \/ WorkerGetFailed
    \/ WorkerGet
    \/ WorkerUnsafe
    \/ WorkerCreate
    \/ WorkerCreateWake
    \/ WorkerCopy
    \/ WorkerCopyWake
    \/ WorkerZipClose
    \/ WorkerCloseWake

\* The client goes away: the request context is cancelled.
ClientGone ==
    /\ hpc = "zip_copy"
    /\ ~zp.gone
    /\ zp' = [zp EXCEPT !.gone = TRUE, !.ctxDone = TRUE]
    /\ UNCHANGED <<zw, zrest>>

\* The handler returns from DownloadObject: the deferred reader.Close() runs
\* and the request context ends.
HandlerLeaves(pending) ==
    /\ Return(OpDone("zip"))
    /\ zp' = [zp EXCEPT !.pending = pending,
                        !.rclosed = CloseReaderOnReturn,
                        !.ctxDone = TRUE,
                        !.early   = zw.pc # "done"]
    /\ UNCHANGED <<zw, store, pageSize, auth, bkt, sizeBytes, req, store0, calls, faulted, tasks>>

\* io.Copy(w, reader) reads what the worker is writing and writes it to the
\* response; the write can fail once the client is gone, and io.Copy returns.
ConsumerRead ==
    /\ hpc = "zip_copy"
    /\ zp.pending
    /\ \/ /\ zp' = [zp EXCEPT !.pending = FALSE]
          /\ UNCHANGED <<zw, zrest>>
       \/ /\ zp.gone
          /\ HandlerLeaves(FALSE)

\* io.Copy reads end-of-stream: the worker has closed the write end.
ConsumerEOF ==
    /\ hpc = "zip_copy"
    /\ zp.wclosed
    /\ ~zp.pending
    /\ HandlerLeaves(FALSE)

ConsumerNext == ConsumerRead \/ ConsumerEOF

InitZip ==
    /\ store \in {MkStore(S) : S \in ZipFixtures}
    /\ pageSize \in 1..MaxPage
    /\ sizeBytes = TotalSize(store)
    /\ hpc = "idle"
    /\ req = NoReq
    /\ idx = 0
    /\ acc = <<>>
    /\ ret = NoRet
    /\ store0 = store
    /\ calls = <<>>
    /\ faulted = FALSE
    /\ la = [t \in Threads |-> ListAllIdle]
    /\ tasks = [t \in TaskIds |-> FreeTask]
    /\ zw = NoWorker
    /\ zp = NoPipe
    /\ auth = NoAuth
    /\ bkt = LiveBucket

ZipNext ==
    \/ \E prefix \in ZipPrefixes : StartZip(prefix)
    \/ ZipListPage
    \/ ZipListFailed
    \/ ZipListed
    \/ WorkerNext
    \/ ClientGone
    \/ ConsumerNext

SpecZip == InitZip /\ [][ZipNext]_vars

\* Goroutines that can run do run, and store calls return.
SpecZipFair == SpecZip /\ WF_vars(WorkerNext) /\ WF_vars(ConsumerNext)

(***************************************************************************)
(* BucketService.recalculateBucketSize, in the goroutine DeleteObjects     *)
(* launches: the bucket is listed whole, the sizes are summed and the sum  *)
(* is written to the bucket record.                                        *)
(***************************************************************************)
\* getBucketName and GetObjectStore: either fails and the task returns, or
\* CalculateBucketSize starts ListAllObjects on the empty prefix.
RecalcBegin(t) ==
    /\ tasks[t].pc = "start"
    /\ \/ /\ tasks' = [tasks EXCEPT ![t].pc = "free"]
          /\ UNCHANGED la
       \/ /\ tasks' = [tasks EXCEPT ![t].pc = "scan"]
          /\ la' = [la EXCEPT ![t] = ListAllStart(<<>>)]
    /\ UNCHANGED <<store, pageSize, auth, bkt, sizeBytes, hvars, zw, zp>>

RecalcListPage(t) ==
    /\ tasks[t].pc = "scan"
    /\ ListPage(t)
    /\ UNCHANGED <<store, pageSize, auth, bkt, sizeBytes, hvars, tasks, zw, zp>>

\* ListAllObjects failed: CalculateBucketSize returns 0 and the error, and
\* recalculateBucketSize returns the error.
RecalcListFailed(t) ==
    /\ tasks[t].pc = "scan"
    /\ la[t].status = "err"
    /\ tasks' = [tasks EXCEPT ![t].pc = "free", ![t].listErr = TRUE]
    /\ la' = [la EXCEPT ![t] = ListAllIdle]
    /\ UNCHANGED <<store, pageSize, auth, bkt, sizeBytes, hvars, zw, zp>>

RecalcListed(t) ==
    /\ tasks[t].pc = "scan"
    /\ la[t].status = "done"
    /\ tasks' = [tasks EXCEPT ![t].pc = "write", ![t].total = CalculateBucketSize(la[t].result)]
    /\ la' = [la EXCEPT ![t] = ListAllIdle]
    /\ UNCHANGED <<store, pageSize, auth, bkt, sizeBytes, hvars, zw, zp>>

\* A write that gives way to a recalculation launched later that has written.
UpdateSizeUnlessOlder(t) ==
    /\ tasks[t].pc = "write"
    /\ tasks' = [tasks EXCEPT ![t].pc = "free", ![t].wrote = TRUE]
    /\ sizeBytes' = IF \E u \in TaskIds : tasks[u].seq > tasks[t].seq /\ tasks[u].wrote
                    THEN sizeBytes
                    ELSE tasks[t].total
    /\ UNCHANGED <<store, pageSize, auth, bkt, hvars, la, zw, zp>>

\* BucketService.UpdateSize: the write fails, or size_bytes is set.
UpdateSize(t) ==
    /\ tasks[t].pc = "write"
    /\ \/ /\ tasks' = [tasks EXCEPT ![t].pc = "free"]
          /\ UNCHANGED sizeBytes
       \/ /\ tasks' = [tasks EXCEPT ![t].pc = "free", ![t].wrote = TRUE]
          /\ sizeBytes' = tasks[t].total
    /\ UNCHANGED <<store, pageSize, auth, bkt, hvars, la, zw, zp>>

RecalcNext ==
    \E t \in TaskIds :
        \/ RecalcBegin(t)
        \/ RecalcListPage(t)
        \/ RecalcListFailed(t)
        \/ RecalcListed(t)
        \/ UpdateSize(t)

(***************************************************************************)
(* The folder operations that list with ListAllObjects, and the            *)
(* recalculations, together on one bucket.                                 *)
(***************************************************************************)
AllKeys == {kA, kAx, kAEvil}

AllDeletes == {<<kA>>, <<kAx, kA>>}

InitAll ==
    /\ store = MkStore(AllKeys)
    /\ pageSize \in 1..MaxPage
    /\ sizeBytes = TotalSize(store)
    /\ hpc = "idle"
    /\ req = NoReq
    /\ idx = 0
    /\ acc = <<>>
    /\ ret = NoRet
    /\ store0 = store
    /\ calls = <<>>
    /\ faulted = FALSE
    /\ la = [t \in Threads |-> ListAllIdle]
    /\ tasks = [t \in TaskIds |-> FreeTask]
    /\ zw = NoWorker
    /\ zp = NoPipe
    /\ auth = NoAuth
    /\ bkt = LiveBucket

DeleteAllNext ==
    \/ \E keys \in AllDeletes : NoTaskRunning /\ StartDelete(keys)
    \/ DelExpand
    \/ DelListPage
    \/ DelListed
    \/ DelListFailed
    \/ DelExpanded
    \/ DelSendFailed
    \/ DelSend

RenameAllNext ==
    \/ StartRename(kA, kB)
    \/ RenListPage
    \/ RenListFailed
    \/ RenListed
    \/ RenCopy
    \/ RenCopyMarker
    \/ RenDelete

NextAll == DeleteAllNext \/ RenameAllNext \/ ZipNext \/ RecalcNext

SpecAll == InitAll /\ [][NextAll]_vars


(***************************************************************************)
(* BucketService.UploadObject: the object is put, the recalculation is     *)
(* launched and the call returns.                                          *)
(***************************************************************************)
\* The object an upload stores under a key.
Uploaded(size) == [body |-> <<"n", "e", "w">>, size |-> size]

StartUpload(key, size) ==
    /\ hpc = "idle"
    /\ HasFreeTask
    /\ req' = [NoReq EXCEPT !.op = "upload", !.keys = <<key>>, !.size = size]
    /\ hpc' = "up_put"
    /\ idx' = 0
    /\ acc' = <<>>
    /\ ret' = NoRet
    /\ store0' = store
    /\ calls' = <<>>
    /\ faulted' = FALSE
    /\ UNCHANGED <<zw, zp, store, pageSize, auth, bkt, sizeBytes, la, tasks>>

\* A failed upload that launches the recalculation all the same.
UploadPutFailedLaunches ==
    /\ hpc = "up_put"
    /\ Return(OpFailed("upload", "put"))
    /\ faulted' = TRUE
    /\ tasks' = Launch
    /\ UNCHANGED <<zw, zp, store, pageSize, auth, bkt, sizeBytes, req, store0, calls>>

\* store.PutObject fails: the error is returned, nothing is launched.
UploadPutFailed ==
    /\ hpc = "up_put"
    /\ Return(OpFailed("upload", "put"))
    /\ faulted' = TRUE
    /\ UNCHANGED <<zw, zp, store, pageSize, auth, bkt, sizeBytes, req, store0, calls, tasks>>

\* store.PutObject succeeds: go recalculateBucketSize, return nil.
UploadPut ==
    /\ hpc = "up_put"
    /\ store' = With(store, req.keys[1], Uploaded(req.size))
    /\ calls' = Append(calls, [call |-> "put", keys |-> req.keys])
    /\ tasks' = Launch
    /\ Return(OpDone("upload"))
    /\ UNCHANGED <<zw, zp, pageSize, auth, bkt, sizeBytes, req, store0, faulted>>

(***************************************************************************)
(* Uploads and deletes of single objects with their recalculations, which  *)
(* run side by side.                                                       *)
(***************************************************************************)
UploadKeys == {kX, kQ}

UploadSizes == {0, 2}

\* The one key the concurrent requests write and delete.
SizeKeys == {kX}

\* The launches of one behaviour are numbered up to MaxRecalc.
CanLaunch == NoTaskRunning \/ LastSeq < MaxRecalc

InitSize ==
    /\ store = MkStore({kX})
    /\ pageSize \in 1..MaxPage
    /\ sizeBytes = TotalSize(store)
    /\ hpc = "idle"
    /\ req = NoReq
    /\ idx = 0
    /\ acc = <<>>
    /\ ret = NoRet
    /\ store0 = store
    /\ calls = <<>>
    /\ faulted = FALSE
    /\ la = [t \in Threads |-> ListAllIdle]
    /\ tasks = [t \in TaskIds |-> FreeTask]
    /\ zw = NoWorker
    /\ zp = NoPipe
    /\ auth = NoAuth
    /\ bkt = LiveBucket

UploadSizeNext ==
    \/ \E key \in SizeKeys, size \in UploadSizes : CanLaunch /\ StartUpload(key, size)
    \/ UploadPutFailed
    \/ UploadPut

DeleteSizeNext ==
    \/ \E key \in SizeKeys : CanLaunch /\ StartDelete(<<key>>)
    \/ CanLaunch /\ StartDelete(<<>>)
    \/ DelExpand
    \/ DelExpanded
    \/ DelSendFailed
    \/ DelSend

NextSize == UploadSizeNext \/ DeleteSizeNext \/ RecalcNext

SpecSize == InitSize /\ [][NextSize]_vars

(***************************************************************************)
(* The same, one at a time: a request starts when no recalculation is      *)
(* running.                                                                *)
(***************************************************************************)
UploadSoloNext ==
    \/ \E key \in UploadKeys, size \in UploadSizes : NoTaskRunning /\ StartUpload(key, size)
    \/ UploadPutFailed
    \/ UploadPut

DeleteSoloNext ==
    \/ \E keys \in AllDeletes \cup {<<kX>>} : NoTaskRunning /\ StartDelete(keys)
    \/ DelExpand
    \/ DelListPage
    \/ DelListed
    \/ DelListFailed
    \/ DelExpanded
    \/ DelSendFailed
    \/ DelSend

InitSolo ==
    /\ store = MkStore({kA, kAx, kX})
    /\ pageSize \in 1..MaxPage
    /\ sizeBytes = TotalSize(store)
    /\ hpc = "idle"
    /\ req = NoReq
    /\ idx = 0
    /\ acc = <<>>
    /\ ret = NoRet
    /\ store0 = store
    /\ calls = <<>>
    /\ faulted = FALSE
    /\ la = [t \in Threads |-> ListAllIdle]
    /\ tasks = [t \in TaskIds |-> FreeTask]
    /\ zw = NoWorker
    /\ zp = NoPipe
    /\ auth = NoAuth
    /\ bkt = LiveBucket

NextSolo == UploadSoloNext \/ DeleteSoloNext \/ RecalcNext

SpecSolo == InitSolo /\ [][NextSolo]_vars

(***************************************************************************)
(* A folder delete or rename with a concurrent writer: another request     *)
(* puts an object under the folder while the operation runs.               *)
(***************************************************************************)
RaceKeys == {kAyz}

WriterPut(key) ==
    /\ hpc # "idle"
    /\ key \notin DOMAIN store
    /\ store' = With(store, key, ObjectOf(key))
    /\ UNCHANGED <<pageSize, auth, bkt, sizeBytes, hvars, la, tasks, zw, zp>>

InitRace ==
    /\ store \in {MkStore(S) : S \in {{kA, kAx}, {kA, kAx, kAy}}}
    /\ pageSize \in 1..MaxPage
    /\ sizeBytes = TotalSize(store)
    /\ hpc = "idle"
    /\ req = NoReq
    /\ idx = 0
    /\ acc = <<>>
    /\ ret = NoRet
    /\ store0 = store
    /\ calls = <<>>
    /\ faulted = FALSE
    /\ la = [t \in Threads |-> ListAllIdle]
    /\ tasks = [t \in TaskIds |-> FreeTask]
    /\ zw = NoWorker
    /\ zp = NoPipe
    /\ auth = NoAuth
    /\ bkt = LiveBucket

DeleteRaceNext ==
    \/ StartDelete(<<kA>>)
    \/ DelExpand
    \/ DelListPage
    \/ DelListed
    \/ DelListFailed
    \/ DelExpanded
    \/ DelSendFailed
    \/ DelSend

RenameRaceNext ==
    \/ StartRename(kA, kB)
    \/ RenListPage
    \/ RenListFailed
    \/ RenListed
    \/ RenCopy
    \/ RenCopyMarker
    \/ RenDelete

WriterNext == \E key \in RaceKeys : WriterPut(key)

NextRace == DeleteRaceNext \/ RenameRaceNext \/ WriterNext

SpecRace == InitRace /\ [][NextRace]_vars

(***************************************************************************)
(* BucketService.SearchObjects: the entries of ListObjects("") whose key   *)
(* contains the query, both in lower case.                                 *)
(***************************************************************************)
RECURSIVE FilterByQuery(_, _)
FilterByQuery(objects, query) ==
    IF objects = <<>> THEN <<>>
    ELSE IF Contains(ToLower(Head(objects).Key), query)
         THEN <<Head(objects)>> \o FilterByQuery(Tail(objects), query)
         ELSE FilterByQuery(Tail(objects), query)

SearchObjects(query) ==
    /\ hpc = "idle"
    /\ req' = [NoReq EXCEPT !.op = "search", !.src = query]
    /\ store0' = store
    /\ calls' = <<>>
    /\ \/ /\ Return(OpFailed("search", "list"))
          /\ faulted' = TRUE
       \/ /\ Return([NoRet EXCEPT
                        !.op = "search", !.Success = TRUE,
                        !.Entries = FilterByQuery(ServiceListObjects(store, <<>>, pageSize),
                                                  ToLower(query))])
          /\ faulted' = FALSE
    /\ UNCHANGED <<zw, zp, store, pageSize, auth, bkt, sizeBytes, tasks>>

SearchQueries == {<<"x">>, <<"A">>, <<"a", "/">>, <<>>}

\* The search, on a bucket whose keys fit in one list page.
SearchKeys == {kA, kAB, kX, kQ}

InitSearch ==
    /\ store \in {MkStore(S) : S \in SUBSET SearchKeys}
    /\ pageSize = Cardinality(SearchKeys)
    /\ sizeBytes = TotalSize(store)
    /\ hpc = "idle"
    /\ req = NoReq
    /\ idx = 0
    /\ acc = <<>>
    /\ ret = NoRet
    /\ store0 = store
    /\ calls = <<>>
    /\ faulted = FALSE
    /\ la = [t \in Threads |-> ListAllIdle]
    /\ tasks = [t \in TaskIds |-> FreeTask]
    /\ zw = NoWorker
    /\ zp = NoPipe
    /\ auth = NoAuth
    /\ bkt = LiveBucket

NextSearch == \E query \in SearchQueries : SearchObjects(query)

SpecSearch == InitSearch /\ [][NextSearch]_vars

(***************************************************************************)
(* BucketService.Delete with deleteRemote = true, and                      *)
(* ObjectStore.DeleteBucket under it: one list page, one batch delete of   *)
(* that page, the removal of the bucket, then the removal of the record.   *)
(***************************************************************************)
brest == <<pageSize, auth, sizeBytes, req, store0, calls, tasks, zw, zp>>

StartBucketDelete ==
    /\ hpc = "idle"
    /\ hpc' = "bd_get"
    /\ req' = [NoReq EXCEPT !.op = "bucket_delete"]
    /\ idx' = 0
    /\ acc' = <<>>
    /\ ret' = NoRet
    /\ store0' = store
    /\ calls' = <<>>
    /\ faulted' = FALSE
    /\ UNCHANGED <<zw, zp, store, pageSize, auth, bkt, sizeBytes, la, tasks>>

\* s.buckets.Get: the query fails, or there is no record, or there is one.
BucketDeleteGet ==
    /\ hpc = "bd_get"
    /\ \/ /\ Return(OpFailed("bucket_delete", "get"))
          /\ faulted' = TRUE
       \/ /\ ~bkt.record
          /\ Return(OpFailed("bucket_delete", "not found"))
          /\ UNCHANGED faulted
       \/ /\ bkt.record
          /\ hpc' = "bd_list"
          /\ UNCHANGED <<idx, acc, ret, la, faulted>>
    /\ UNCHANGED <<store, bkt, brest>>

\* ListObjectsV2 without a prefix and without a token: the first page.
BucketDeleteList ==
    /\ hpc = "bd_list"
    /\ \/ /\ Return(OpFailed("bucket_delete", "list"))
          /\ faulted' = (faulted \/ bkt.remote)
       \/ /\ bkt.remote
          /\ acc' = ResultKeys(StorePage(store, <<>>, <<>>, pageSize).Contents)
          /\ hpc' = IF acc' = <<>> THEN "bd_bucket" ELSE "bd_objects"
          /\ UNCHANGED <<idx, ret, la, faulted>>
    /\ UNCHANGED <<store, bkt, brest>>

\* client.DeleteObjects of the keys of that page.
BucketDeleteObjects ==
    /\ hpc = "bd_objects"
    /\ \/ /\ Return(OpFailed("bucket_delete", "delete objects"))
          /\ faulted' = TRUE
          /\ UNCHANGED store
       \/ /\ store' = Without(store, Range(acc))
          /\ hpc' = "bd_bucket"
          /\ UNCHANGED <<idx, acc, ret, la, faulted>>
    /\ UNCHANGED <<bkt, brest>>

\* client.DeleteBucket: the store refuses to remove a bucket that holds an
\* object; the call can fail in transport as well.
BucketDeleteRemote ==
    /\ hpc = "bd_bucket"
    /\ \/ /\ Return(OpFailed("bucket_delete", "delete bucket"))
          /\ faulted' = (faulted \/ DOMAIN store = {})
          /\ UNCHANGED bkt
       \/ /\ DOMAIN store = {}
          /\ bkt' = [bkt EXCEPT !.remote = FALSE]
          /\ hpc' = "bd_record"
          /\ UNCHANGED <<idx, acc, ret, la, faulted>>
    /\ UNCHANGED <<store, brest>>

\* s.buckets.Delete: the record is removed, or the statement fails.
BucketDeleteRecord ==
    /\ hpc = "bd_record"
    /\ \/ /\ Return(OpFailed("bucket_delete", "record"))
          /\ faulted' = TRUE
          /\ UNCHANGED bkt
       \/ /\ bkt' = [bkt EXCEPT !.record = FALSE]
          /\ Return(OpDone("bucket_delete"))
          /\ UNCHANGED faulted
    /\ UNCHANGED <<store, brest>>

InitBucket ==
    /\ store \in {MkStore(S) : S \in SUBSET CoreKeys}
    /\ pageSize \in 1..MaxPage
    /\ sizeBytes = TotalSize(store)
    /\ hpc = "idle"
    /\ req = NoReq
    /\ idx = 0
    /\ acc = <<>>
    /\ ret = NoRet
    /\ store0 = store
    /\ calls = <<>>
    /\ faulted = FALSE
    /\ la = [t \in Threads |-> ListAllIdle]
    /\ tasks = [t \in TaskIds |-> FreeTask]
    /\ zw = NoWorker
    /\ zp = NoPipe
    /\ auth = NoAuth
    /\ bkt = LiveBucket

NextBucket ==
    \/ StartBucketDelete
    \/ BucketDeleteGet
    \/ BucketDeleteList
    \/ BucketDeleteObjects
    \/ BucketDeleteRemote
    \/ BucketDeleteRecord

SpecBucket == InitBucket /\ [][NextBucket]_vars

(***************************************************************************)
(* formatByteSize. A size is written in base 1024, least significant       *)
(* digit first, in six digits: float64(bytes) and the divisions by 1024    *)
(* are exact below 2^53, and the sizes of the model stay below it.         *)
(***************************************************************************)
Kilo == 1024

NumDigits == 6

units == << <<"B">>, <<"K", "B">>, <<"M", "B">>, <<"G", "B">>, <<"T", "B">> >>

\* The position of the highest digit that is not zero (0 for the size 0).
TopDigit(bytes) ==
    CHOOSE t \in 0..NumDigits - 1 :
        /\ \A k \in t + 2..NumDigits : bytes[k] = 0
        /\ (t = 0 \/ bytes[t + 1] # 0)

\* A loop that stops one unit early.
RECURSIVE DivideLoopShort(_, _)
DivideLoopShort(bytes, i) ==
    IF TopDigit(bytes) > i /\ i < Len(units) - 2 THEN DivideLoopShort(bytes, i + 1) ELSE i

\* for f >= 1024 && i < len(units)-1 { f /= 1024; i++ }: f is bytes / 1024^i,
\* and it is at least 1024 while a digit above position i is not zero.
RECURSIVE DivideLoop(_, _)
DivideLoop(bytes, i) ==
    IF TopDigit(bytes) > i /\ i < Len(units) - 1 THEN DivideLoop(bytes, i + 1) ELSE i

\* The whole part of bytes / 1024^i.
RECURSIVE WholePart(_, _, _)
WholePart(bytes, i, k) ==
    IF k > NumDigits THEN 0
    ELSE (IF k > i THEN bytes[k] ELSE 0) + (IF k > i THEN Kilo ELSE 1) * WholePart(bytes, i, k + 1)

\* %.1f: bytes / 1024^i in tenths, rounded to the nearest, a tie to the even
\* tenth. The two digits below position i decide, the lower ones break a tie.
Tenths(bytes, i) ==
    LET hi     == IF i >= 1 THEN bytes[i] ELSE 0
        mid    == IF i >= 2 THEN bytes[i - 1] ELSE 0
        sticky == \E k \in 1..NumDigits : k < i - 1 /\ bytes[k] # 0
        num    == 10 * (hi * Kilo + mid)
        den    == Kilo * Kilo
        q      == num \div den
        r      == num % den
        up     == 2 * r > den \/ (2 * r = den /\ (sticky \/ q % 2 = 1))
    IN 10 * WholePart(bytes, i, 1) + q + (IF up THEN 1 ELSE 0)

DigitChar(d) == <<"0", "1", "2", "3", "4", "5", "6", "7", "8", "9">>[d + 1]

RECURSIVE Itoa(_)
Itoa(n) == IF n < 10 THEN <<DigitChar(n)>> ELSE Itoa(n \div 10) \o <<DigitChar(n % 10)>>

\* fmt.Sprintf("%.1f %s", f, units[i])
Sprintf(tenths, unit) ==
    Itoa(tenths \div 10) \o <<".", DigitChar(tenths % 10), " ">> \o unit

\* The formatted size: its text, and the unit index and value behind it.
formatByteSize(bytes) ==
    IF \A k \in 1..NumDigits : bytes[k] = 0
    THEN [text |-> <<"0", " ", "B">>, unit |-> 0, tenths |-> 0]
    ELSE LET i == DivideLoop(bytes, 0)
         IN [text   |-> Sprintf(Tenths(bytes, i), units[i + 1]),
             unit   |-> i,
             tenths |-> Tenths(bytes, i)]

\* The sizes formatted: around every power of 1024 up to 1024^5.
SizeOf(t, top, nxt, low) ==
    [k \in 1..NumDigits |->
        IF k = t + 1 THEN top ELSE IF k = t THEN nxt ELSE IF k < t THEN low ELSE 0]

SampleSizes ==
    {SizeOf(t, top, nxt, low) :
        t \in 0..NumDigits - 1, top \in {0, 1, 7}, nxt \in {0, 256, 512, 1023}, low \in {0, 1023}}
    \cup {SizeOf(t, 1023, nxt, low) : t \in 0..NumDigits - 2, nxt \in {0, 512, 1023}, low \in {0, 1023}}

\* Two sizes are formatted, as for two entries of a listing.
FormatSizes ==
    /\ hpc = "idle"
    /\ req.op = "format"
    /\ ret = NoRet
    /\ ret' = [NoRet EXCEPT !.op = "format", !.Success = TRUE,
                            !.Entries = <<formatByteSize(req.keys[1]),
                                          formatByteSize(req.keys[2])>>]
    /\ UNCHANGED <<store, pageSize, auth, bkt, sizeBytes, hpc, req, idx, acc, store0,
                   calls, faulted, la, tasks, zw, zp>>

(***************************************************************************)
(* AuthService: sessions and refresh tokens. A refresh token is a number,  *)
(* 0 the empty string; the sessions table holds the hash of the token of   *)
(* each session. Each call to the sessions table is one step.              *)
(***************************************************************************)
arest == <<store, pageSize, bkt, sizeBytes, hvars, la, tasks, zw, zp>>

\* crypto.HashRefreshToken: the hex SHA-256 of the token.
HashRefreshToken(token) == <<"sha256", token>>

\* SELECT * FROM sessions WHERE refresh_token_hash = $1
GetSessionByHash(sessions, hash) == {sid \in DOMAIN sessions : sessions[sid].hash = hash}

\* DELETE FROM sessions WHERE refresh_token_hash = $1
DeleteSessionByHash(sessions, hash) ==
    [sid \in DOMAIN sessions \ GetSessionByHash(sessions, hash) |-> sessions[sid]]

\* UPDATE sessions SET refresh_token_hash = $2, expires_at = $3 WHERE id = $1:
\* no row, no change, no error.
UpdateSessionToken(sessions, sid, hash) ==
    [x \in DOMAIN sessions |->
        IF x = sid THEN [hash |-> hash, expired |-> FALSE] ELSE sessions[x]]

\* CreateSession
CreateSession(sessions, sid, hash) ==
    [x \in DOMAIN sessions \cup {sid} |->
        IF x = sid THEN [hash |-> hash, expired |-> FALSE] ELSE sessions[x]]

\* The calls in progress that present token t no longer present a live token.
Stale(rc, t) == [c \in Callers |-> IF rc[c].tok = t THEN [rc[c] EXCEPT !.fresh = FALSE] ELSE rc[c]]

\* Login, Register: issueTokens creates a session for a new refresh token.
Login ==
    /\ auth.issued < MaxTokens
    /\ \E sid \in SessionIds \ DOMAIN auth.sessions :
          auth' = [auth EXCEPT
                      !.sessions = CreateSession(@, sid, HashRefreshToken(auth.issued + 1)),
                      !.issued = @ + 1,
                      !.live = @ \cup {auth.issued + 1}]
    /\ UNCHANGED arest

\* Refresh is called with a token: the empty token is refused at once.
RefreshStart(c, token) ==
    /\ auth.rc[c].pc \in {"idle", "done"}
    /\ auth' = [auth EXCEPT !.rc[c] =
                    [IdleCall EXCEPT !.pc = IF token = 0 THEN "done" ELSE "lookup",
                                     !.res = IF token = 0 THEN "invalid" ELSE "none",
                                     !.tok = token,
                                     !.late = token \in auth.spent,
                                     !.fresh = token \in auth.live]]
    /\ UNCHANGED arest

\* s.sessions.GetByHash and the expiry check: the query fails, or finds no
\* session, or an expired one, or one to rotate (the user of a session exists).
RefreshLookup(c) ==
    /\ auth.rc[c].pc = "lookup"
    /\ LET found == GetSessionByHash(auth.sessions, HashRefreshToken(auth.rc[c].tok))
       IN  \/ auth' = [auth EXCEPT !.rc[c].pc = "done", !.rc[c].res = "error"]
           \/ /\ found = {}
              /\ auth' = [auth EXCEPT !.rc[c].pc = "done", !.rc[c].res = "invalid"]
           \/ \E sid \in found :
                 auth' = [auth EXCEPT
                             !.rc[c].pc = IF auth.sessions[sid].expired THEN "expired" ELSE "rotate",
                             !.rc[c].sid = sid]
    /\ UNCHANGED arest

\* The session has expired: it is deleted by hash, the token refused.
RefreshExpired(c) ==
    /\ auth.rc[c].pc = "expired"
    /\ auth' = [auth EXCEPT
                    !.sessions = DeleteSessionByHash(@, HashRefreshToken(auth.rc[c].tok)),
                    !.rc[c].pc = "done",
                    !.rc[c].res = "invalid"]
    /\ UNCHANGED arest

\* rotateSession: a new token is generated and UpdateToken stores its hash in
\* the session found; the update fails, or the new token is returned.
RefreshRotate(c) ==
    /\ auth.rc[c].pc = "rotate"
    /\ auth.issued < MaxTokens
    /\ \/ auth' = [auth EXCEPT !.issued = @ + 1,
                                !.rc[c].pc = "done", !.rc[c].res = "error"]
       \/ auth' = [auth EXCEPT
                      !.sessions = UpdateSessionToken(@, auth.rc[c].sid,
                                                      HashRefreshToken(auth.issued + 1)),
                      !.issued = @ + 1,
                      !.spent = @ \cup {auth.rc[c].tok},
                      !.live = (@ \ {auth.rc[c].tok}) \cup {auth.issued + 1},
                      !.rc = [Stale(@, auth.rc[c].tok) EXCEPT
                                 ![c].pc = "done", ![c].res = "ok", ![c].out = auth.issued + 1]]
    /\ UNCHANGED arest

\* Logout: the session of the token is deleted by hash.
Logout(token) ==
    /\ auth' = [auth EXCEPT
                    !.sessions = DeleteSessionByHash(@, HashRefreshToken(token)),
                    !.live = @ \ {token},
                    !.rc = Stale(@, token)]
    /\ auth' # auth
    /\ UNCHANGED arest

\* Time passes the expiry of every token issued so far.
Expire ==
    /\ \E sid \in DOMAIN auth.sessions : ~auth.sessions[sid].expired
    /\ auth' = [auth EXCEPT
                    !.sessions = [sid \in DOMAIN @ |-> [@[sid] EXCEPT !.expired = TRUE]],
                    !.live = {},
                    !.rc = [c \in Callers |-> [@[c] EXCEPT !.fresh = FALSE]]]
    /\ UNCHANGED arest

InitAuth ==
    /\ store = MkStore({})
    /\ pageSize = 1
    /\ sizeBytes = 0
    /\ hpc = "idle"
    /\ req = NoReq
    /\ idx = 0
    /\ acc = <<>>
    /\ ret = NoRet
    /\ store0 = store
    /\ calls = <<>>
    /\ faulted = FALSE
    /\ la = [t \in Threads |-> ListAllIdle]
    /\ tasks = [t \in TaskIds |-> FreeTask]
    /\ zw = NoWorker
    /\ zp = NoPipe
    /\ auth = NoAuth
    /\ bkt = LiveBucket

RefreshNext ==
    \E c \in Callers :
        \/ \E token \in 0..auth.issued : RefreshStart(c, token)
        \/ RefreshLookup(c)
        \/ RefreshExpired(c)
        \/ RefreshRotate(c)

NextAuth ==
    \/ Login
    \/ RefreshNext
    \/ \E token \in 1..auth.issued : Logout(token)
    \/ Expire

SpecAuth == InitAuth /\ [][NextAuth]_vars

\* Renames on their own: of a folder into itself and to a key without a
\* final slash among them.
kAyx == <<"a", "/", "y", "/", "x">>

MoveKeys == {kA, kAx, kAyx, kX}

NestedMoves == {<<kA, kAy>>, <<kA, kB>>, <<kA, kQ>>, <<kX, kQ>>}

InitMove ==
    /\ store \in {MkStore(S) : S \in SUBSET MoveKeys}
    /\ pageSize \in 1..MaxPage
    /\ sizeBytes = TotalSize(store)
    /\ hpc = "idle"
    /\ req = NoReq
    /\ idx = 0
    /\ acc = <<>>
    /\ ret = NoRet
    /\ store0 = store
    /\ calls = <<>>
    /\ faulted = FALSE
    /\ la = [t \in Threads |-> ListAllIdle]
    /\ tasks = [t \in TaskIds |-> FreeTask]
    /\ zw = NoWorker
    /\ zp = NoPipe
    /\ auth = NoAuth
    /\ bkt = LiveBucket

\* A rename into the source folder makes keys longer: requests stop coming
\* once a key is longer than MaxKeyLen.
MaxKeyLen == 5

NextMove ==
    \/ /\ \A k \in DOMAIN store : Len(k) <= MaxKeyLen
       /\ \E m \in NestedMoves : StartRename(m[1], m[2])
    \/ RenListPage
    \/ RenListFailed
    \/ RenListed
    \/ RenCopy
    \/ RenCopyMarker
    \/ RenCopyFile
    \/ RenDelete

SpecMove == InitMove /\ [][NextMove]_vars

\* Sizes are formatted on their own.
InitFormat ==
    /\ store = MkStore({})
    /\ pageSize = 1
    /\ sizeBytes = 0
    /\ hpc = "idle"
    /\ \E a, b \in SampleSizes : req = [NoReq EXCEPT !.op = "format", !.keys = <<a, b>>]
    /\ idx = 0
    /\ acc = <<>>
    /\ ret = NoRet
    /\ store0 = store
    /\ calls = <<>>
    /\ faulted = FALSE
    /\ la = [t \in Threads |-> ListAllIdle]
    /\ tasks = [t \in TaskIds |-> FreeTask]
    /\ zw = NoWorker
    /\ zp = NoPipe
    /\ auth = NoAuth
    /\ bkt = LiveBucket

NextFormat == FormatSizes

SpecFormat == InitFormat /\ [][NextFormat]_vars

(***************************************************************************)
(* Properties                                                              *)
(***************************************************************************)
\* The keys of a bucket under a folder key or prefix.
Under(st, prefix) == {k \in DOMAIN st : HasPrefix(k, prefix)}

\* The handler has returned from a request of the kind op.
Returned(op) == hpc = "idle" /\ ret.op = op

\* The object of key k of folder S, as a folder move puts it under D.
MovedKey(k, S, D) == D \o TrimPrefix(k, S)

\* C2: after a successful RenameObject of folder S to D, every key that was
\* under S exists under D with the same content and no key with prefix S is left.
C2_RenameFolderMovesAll ==
    (Returned("rename") /\ ~ret.err /\ IsFolderKey(req.src)) =>
        /\ \A k \in Under(store0, req.src) :
              /\ MovedKey(k, req.src, req.dst) \in DOMAIN store
              /\ store[MovedKey(k, req.src, req.dst)] = store0[k]
        /\ Under(store, req.src) = {}

\* A key is requested when it is in the request or under a requested folder key.
Requested(k, keys) ==
    \E i \in 1..Len(keys) : keys[i] = k \/ (IsFolderKey(keys[i]) /\ HasPrefix(k, keys[i]))

\* C3: after a successful DeleteObjects no requested key and no key under a
\* requested folder key is left, and every other key is as it was.
C3_DeleteRemovesExactlyRequested ==
    (Returned("delete") /\ ~ret.err) =>
        /\ \A k \in DOMAIN store : ~Requested(k, req.keys)
        /\ \A k \in DOMAIN store0 :
              ~Requested(k, req.keys) => (k \in DOMAIN store /\ store[k] = store0[k])
        /\ DOMAIN store \subseteq DOMAIN store0

\* A folder with descendants was deleted and other keys were left in place.
C3_Witness ==
    /\ Returned("delete") /\ ~ret.err
    /\ \E i \in 1..Len(req.keys) :
          /\ IsFolderKey(req.keys[i])
          /\ Cardinality(Under(store0, req.keys[i])) >= 3
    /\ DOMAIN store # {}
    /\ store # store0

AllAbsentFolders(keys) ==
    /\ keys # <<>>
    /\ \A i \in 1..Len(keys) : IsFolderKey(keys[i]) /\ Under(store0, keys[i]) = {}

\* C5: DeleteObjects of a folder key under which nothing exists, when no store
\* call fails in transport, returns no error and no failed key and leaves the
\* bucket as it was; so does calling it again.
C5_DeleteAbsentFolderIsNoOp ==
    (Returned("delete") /\ AllAbsentFolders(req.keys) /\ ~faulted) =>
        /\ ~ret.err
        /\ ret.Failed = <<>>
        /\ store = store0

\* The second successful delete of the behaviour was of an absent folder.
C5_Witness ==
    /\ Returned("delete") /\ AllAbsentFolders(req.keys) /\ ~faulted
    /\ ~HasFreeTask
    /\ DOMAIN store # {}

\* C6: RenameObject and CopyObject of a folder key under which nothing exists,
\* when no store call fails in transport, return success and leave the bucket
\* as it was.
C6_MoveAbsentFolderIsNoOp ==
    ((Returned("rename") \/ Returned("copy")) /\ AllAbsentFolders(<<req.src>>) /\ ~faulted) =>
        /\ ~ret.err
        /\ ret.Success
        /\ store = store0

\* The keys a listing in progress must have collected: all keys of the prefix
\* when it is done, else those up to its continuation token.
Collected(l) ==
    {k \in Under(store, l.prefix) :
        l.status = "done" \/ (l.token # <<>> /\ ~StrLess(l.token[1], k))}

\* C7: ListAllObjects returns every key of the prefix exactly once, in page
\* order, whatever the page size and however many empty pages with a token the
\* store returns; until the store signals the last page it holds the keys of
\* the pages read so far.
C7_ListAllReturnsEveryKeyOnce ==
    la[0].status \in {"more", "done"} =>
        ResultKeys(la[0].result) = SetToSortedSeq(Collected(la[0]))

\* A listing of several pages, one of them empty with a token, has finished.
C7_Witness ==
    /\ la[0].status = "done"
    /\ la[0].sawEmpty
    /\ Len(la[0].result) > pageSize
    /\ Len(la[0].result) = Cardinality(Under(store, la[0].prefix))

\* The immediate children of prefix P in a bucket: the first path segment of
\* what follows P in each key, a folder when more follows it, else a file.
Children(st, P) ==
    {[Kind |-> IF Contains(TrimPrefix(k, P), <<Slash>>) THEN "folder" ELSE "file",
      Key  |-> IF Contains(TrimPrefix(k, P), <<Slash>>)
               THEN P \o FirstSegment(TrimPrefix(k, P)) \o <<Slash>>
               ELSE k] : k \in Under(st, P) \ {P}}

\* C1: ListObjects(P) returns exactly one entry per distinct immediate child of
\* P, whatever the number of keys under P, all folders before all files.
C1_ListOneEntryPerChild ==
    (Returned("list") /\ ~ret.err) =>
        LET P == NormalizePrefix(req.src)
            E == ret.Entries
        IN /\ Len(E) = Cardinality(Children(store, P))
           /\ \A c \in Children(store, P) :
                 \E i \in 1..Len(E) : E[i].Kind = c.Kind /\ E[i].Key = c.Key
           /\ \A i, j \in 1..Len(E) :
                 (i < j) => ~(E[i].Kind = "file" /\ E[j].Kind = "folder")

\* The keys of the archive's entries, in the order they were written.
EntryKeys(entries) == [i \in 1..Len(entries) |-> entries[i].Key]

\* An enumerated object that is to be archived: not the folder marker, fetched,
\* and with a sanitized relative path the guard accepts.
Archivable(k) ==
    /\ k # zw.prefix
    /\ k \in zw.fetched
    /\ ~UnsafePath(SafePath(k, zw.prefix))

\* C9: the archive holds an entry for every enumerated key that is not the
\* marker, was fetched and has a safe sanitized path, in enumeration order, and
\* for no other key; the objects skipped do not stop those after them; no entry
\* name is empty, ".", ".." or starts with "../".
C9_ArchiveHoldsExactlySafeFetchedKeys ==
    /\ \A i \in 1..Len(zw.entries) :
          /\ zw.entries[i].Name = SafePath(zw.entries[i].Key, zw.prefix)
          /\ zw.entries[i].Name \notin {<<>>, <<Dot>>, DotDot}
          /\ ~HasPrefix(zw.entries[i].Name, <<Dot, Dot, Slash>>)
    /\ (zw.pc = "done" /\ ~zp.early) =>
          EntryKeys(zw.entries) = SelectSeq(zw.objs, Archivable)

\* From the keys x, ../evil and a/../../b under the folder, all fetched, the
\* finished archive holds x alone, written after the two unsafe ones were skipped.
C9_Witness ==
    /\ zw.pc = "done" /\ ~zp.early
    /\ zw.fetched = {kAx, kAEvil, kAEscB}
    /\ zw.objs = <<kA, kAEvil, kAEscB, kAx>>
    /\ Len(zw.entries) = 1
    /\ zw.entries[1].Name = <<"x">>
    /\ zw.entries[1].Complete

NothingDone ==
    /\ calls = <<>>
    /\ store = store0
    /\ req.op = "zip" => zw = NoWorker

\* C8: a ListAllObjects in which a page request failed returns no entries with
\* its error; the request that called it has then issued no delete and no copy
\* and started no archive, and a recalculation whose listing failed does not
\* write size_bytes.
C8_FailedListingIsDiscarded ==
    /\ \A t \in Threads : la[t].status = "err" => la[t].result = <<>>
    /\ la[0].status = "err" => NothingDone
    /\ (hpc = "idle" /\ ret.err /\ ret.Message = "list") => NothingDone
    /\ \A t \in TaskIds : tasks[t].listErr => ~tasks[t].wrote

\* A delete that had expanded one key already lists a folder, and a page
\* request fails after an earlier page came back with keys.
C8_Witness ==
    /\ hpc = "del_expand"
    /\ acc # <<>>
    /\ la[0].status = "err"
    /\ la[0].token \notin {<<>>, << <<>> >>}

\* The keys a requested key stands for that the bucket held when the request
\* started: the key itself, and for a folder key every key under it.
Covered(key) == {k \in DOMAIN store0 : Requested(k, <<key>>)}

\* C11: the outcome of DeleteObjects lists as Deleted requested keys whose
\* objects were removed and as Failed requested keys whose objects were not:
\* what a failed call has removed already is not listed as Failed, and a
\* delete that found nothing to remove does not list its key as Deleted.
C11_OutcomeTellsWhatWasRemoved ==
    Returned("delete") =>
        /\ \A i \in 1..Len(ret.Failed) :
              Covered(ret.Failed[i]) # {} => Covered(ret.Failed[i]) \cap DOMAIN store # {}
        /\ \A i \in 1..Len(ret.Deleted) :
              /\ Covered(ret.Deleted[i]) \cap DOMAIN store = {}
              /\ Covered(ret.Deleted[i]) # {}

\* What ListAllObjects returned for the source folder of the request, no other
\* writer running.
Enumerated == SetToSortedSeq(Under(store0, req.src))

\* A folder rename has returned because the copy of a listed key failed.
RenameCopyFailed ==
    /\ Returned("rename") /\ IsFolderKey(req.src)
    /\ ret.err /\ ret.Message = "copy"

\* The rename stopped at the failed copy: the calls made are the copies of the
\* keys listed before it, in order, and no delete; these copies are at the
\* destination and every object the bucket held is as it was.
AbortedAtFailedCopy ==
    /\ Len(calls) < Len(Enumerated)
    /\ \A i \in 1..Len(calls) :
          /\ calls[i] = [call |-> "copy",
                         keys |-> <<Enumerated[i], MovedKey(Enumerated[i], req.src, req.dst)>>]
          /\ MovedKey(Enumerated[i], req.src, req.dst) \in DOMAIN store
          /\ store[MovedKey(Enumerated[i], req.src, req.dst)] = store0[Enumerated[i]]
    /\ \A k \in DOMAIN store0 : k \in DOMAIN store /\ store[k] = store0[k]
    /\ DOMAIN store =
          DOMAIN store0 \cup {MovedKey(Enumerated[i], req.src, req.dst) : i \in 1..Len(calls)}

C13_WriteIsUnguarded ==
    [][\A t \in TaskIds :
          (tasks[t].pc = "write" /\ tasks'[t].pc = "free" /\ tasks'[t].wrote)
              => sizeBytes' = tasks[t].total]_vars

\* Two mutations, two recalculations, all finished: the one launched second
\* summed the bucket as it is now, the one launched first wrote last, and
\* size_bytes is its stale total.
C13_Witness ==
    /\ hpc = "idle"
    /\ NoTaskRunning
    /\ \E t, u \in TaskIds :
          /\ tasks[t].seq = 1 /\ tasks[u].seq = 2
          /\ tasks[t].wrote /\ tasks[u].wrote
          /\ tasks[u].total = TotalSize(store)
          /\ tasks[t].total # TotalSize(store)
          /\ sizeBytes = tasks[t].total

\* The recalculations a step launches.
Launched == {t \in TaskIds : tasks[t].pc # "start" /\ tasks'[t].pc = "start"}

\* The handler returns from an upload or a delete in this step.
Returns == hpc # "idle" /\ hpc' = "idle" /\ ret'.op \in {"upload", "delete"}

\* C14: the return of a successful upload, or of a successful delete of at
\* least one key, launches exactly one recalculation and does not wait for
\* it; a failed one launches none; no other step launches one, and no step of
\* a recalculation changes what was returned.
C14_OneRecalculationPerMutation ==
    [][/\ Returns =>
            Cardinality(Launched) =
                IF ~ret'.err /\ (ret'.op = "upload" \/ req.keys # <<>>) THEN 1 ELSE 0
       /\ ~Returns => Launched = {}
       /\ (hpc = "idle" /\ hpc' = "idle") => ret' = ret]_vars

\* An upload has returned and the recalculation it launched has not written.
C14_Witness ==
    /\ Returned("upload") /\ ~ret.err
    /\ \E t \in TaskIds :
          /\ tasks[t].seq = LastSeq
          /\ tasks[t].pc \in {"start", "scan", "write"}
          /\ sizeBytes # TotalSize(store)

\* A mutation has returned and the recalculation it launched, the only one
\* running, has written.
Persisted(op) ==
    /\ Returned(op) /\ ~ret.err
    /\ NoTaskRunning
    /\ \E t \in TaskIds : tasks[t].wrote

\* C15: with nothing else running on the bucket, the total persisted after an
\* upload is at least the total before it, whatever the key, and the total
\* persisted after a delete is at most the total before it.
C15_TotalFollowsMutation ==
    /\ Persisted("upload") => sizeBytes >= TotalSize(store0)
    /\ Persisted("delete") => sizeBytes <= TotalSize(store0)

\* The upload replaced an object by a smaller one.
ReplacedBySmaller ==
    /\ req.keys[1] \in DOMAIN store0
    /\ req.size < store0[req.keys[1]].size

\* C15 (as the code has it): the total persisted is the sum of the sizes after
\* the mutation: after a delete at most the total before it; after an upload
\* at least the total before it unless the upload replaced an object by a
\* smaller one, and then less.
C15_TotalIsSumAfterMutation ==
    /\ (Persisted("upload") \/ Persisted("delete")) => sizeBytes = TotalSize(store)
    /\ Persisted("delete") => sizeBytes <= TotalSize(store0)
    /\ (Persisted("upload") /\ ~ReplacedBySmaller) => sizeBytes >= TotalSize(store0)
    /\ (Persisted("upload") /\ ReplacedBySmaller) => sizeBytes < TotalSize(store0)

\* The total persisted after an upload that replaced x by an empty object.
C15_Witness ==
    /\ Persisted("upload")
    /\ ReplacedBySmaller
    /\ sizeBytes < TotalSize(store0)
    /\ sizeBytes = TotalSize(store)

\* The keys the delete calls of a request name, and the keys its copy calls read.
DeletedBy(cs) == UNION {Range(cs[i].keys) : i \in {j \in DOMAIN cs : cs[j].call = "delete"}}

CopiedBy(cs) == {cs[i].keys[1] : i \in {j \in DOMAIN cs : cs[j].call = "copy"}}

\* A folder delete or a folder rename reports success in this step.
FolderOpSucceeds(op) ==
    /\ hpc # "idle" /\ hpc' = "idle"
    /\ req.op = op
    /\ ret'.Success

\* A folder delete acts on the enumeration and the marker, and on nothing else.
DeleteActsOnEnumeration ==
    FolderOpSucceeds("delete") => DeletedBy(calls') = Range(acc)

\* C16: a folder delete or rename that reports success has acted on exactly
\* the keys its enumeration returned and the folder marker: each of them was
\* deleted (delete) or copied and deleted (rename), and a key a concurrent
\* writer created under the folder after the enumeration was neither.
C16_ActsOnExactlyTheEnumeration ==
    [][/\ DeleteActsOnEnumeration
       /\ FolderOpSucceeds("rename") =>
             /\ CopiedBy(calls') = Range(acc) \cup {req.src}
             /\ DeletedBy(calls') = Range(acc) \cup {req.src}]_vars

\* The worker calls store.GetObject for the next enumerated key in this step.
FetchIssued ==
    /\ zw.pc = "loop"
    /\ zw.i <= Len(zw.objs)
    /\ zkey # zw.prefix
    /\ zw' # zw

\* The caller of the download is gone: its context is cancelled and the read
\* end of the pipe is closed.
CallerGone == zp.ctxDone /\ zp.rclosed

\* C17: once the caller of a folder download is gone, the worker calls
\* store.GetObject for no further enumerated key and begins no further archive
\* entry: it stops at the key it was processing.
C17_WorkerStopsWhenCallerGone ==
    [][CallerGone => (~FetchIssued /\ Len(zw'.entries) <= Len(zw.entries) + 1)]_vars

\* A Refresh call returns new tokens in this step.
RefreshSucceeds == \E c \in Callers : auth.rc[c].pc = "rotate" /\ auth'.rc[c].res = "ok"

\* C18: a Refresh that presents a token a successful Refresh has presented
\* before is refused with ErrInvalidRefreshToken; a Refresh that presents a
\* token returned to a client, not presented with success since, not logged
\* out and not expired, is accepted (a failure of the sessions table itself
\* apart, in both cases); a successful Refresh leaves the number of sessions
\* as it was.
C18_RotationRefusesOldAcceptsNew ==
    [][/\ \A c \in Callers :
            auth'.rc[c].pc = "done" =>
                /\ auth'.rc[c].late => auth'.rc[c].res \in {"invalid", "error"}
                /\ auth'.rc[c].fresh => auth'.rc[c].res \in {"ok", "error"}
       /\ RefreshSucceeds => DOMAIN auth'.sessions = DOMAIN auth.sessions]_vars

\* C19: a search returns every object of the bucket whose key contains the
\* query, case-insensitively, at any folder depth.
C19_SearchFindsEveryMatchingKey ==
    (Returned("search") /\ ~ret.err) =>
        \A k \in DOMAIN store :
            Contains(ToLower(k), ToLower(req.src)) =>
                \E i \in 1..Len(ret.Entries) : ret.Entries[i].Key = k

\* C20: when Delete with deleteRemote returns, either it succeeded and the
\* remote bucket, every object and the metadata record are gone, or it
\* returned an error and the record, the remote bucket and every object it
\* held are still there (a bucket without a record is not found); the record
\* is never removed while the remote bucket stays.
C20_BucketDeleteIsAllOrNothing ==
    /\ Returned("bucket_delete") =>
          IF ret.err
          THEN ret.Message # "not found" => (bkt.record /\ bkt.remote /\ store = store0)
          ELSE ~bkt.record /\ ~bkt.remote /\ DOMAIN store = {}
    /\ ~bkt.record => ~bkt.remote

\* The keys of the batch delete calls, one after the other.
RECURSIVE FlattenCalls(_)
FlattenCalls(cs) ==
    IF cs = <<>> THEN <<>> ELSE Head(cs).keys \o FlattenCalls(Tail(cs))

\* Batch calls of at least one and at most DeleteBatch keys.
WellSized(cs) ==
    \A i \in 1..Len(cs) :
        /\ cs[i].call = "delete"
        /\ Len(cs[i].keys) \in 1..DeleteBatch

\* While the chunks are being sent, the calls made are full chunks that make
\* up the beginning of the list, and the list holds, for every folder key of
\* the request, its descendants and then its marker.
ChunksInOrder ==
    hpc = "del_send" =>
        /\ WellSized(calls)
        /\ \A i \in 1..Len(calls) : Len(calls[i].keys) = DeleteBatch
        /\ idx = Len(calls) * DeleteBatch
        /\ FlattenCalls(calls) = SubSeq(acc, 1, idx)
        /\ \A i \in 1..Len(req.keys) :
              IsFolderKey(req.keys[i]) =>
                  \E j \in 1..Len(acc) :
                      /\ acc[j] = req.keys[i]
                      /\ \A k \in Under(store0, req.keys[i]) :
                            \E m \in 1..j : acc[m] = k

\* C21: the batch calls of a delete are ceil(n / DeleteBatch) chunks of at
\* most DeleteBatch keys, in list order, whose concatenation is the list;
\* an empty list gives no call; a failing chunk ends the calls; the list of a
\* folder key holds the marker besides the descendants.
C21_ChunksPartitionTheList ==
    [][/\ ChunksInOrder'
       /\ (hpc = "del_send" /\ hpc' = "idle" /\ ~ret'.err) =>
             /\ WellSized(calls')
             /\ FlattenCalls(calls') = acc
             /\ Len(calls') = (Len(acc) + DeleteBatch - 1) \div DeleteBatch
       /\ (hpc = "del_send" /\ hpc' = "idle" /\ ret'.err) => calls' = calls
       /\ (hpc = "del_expand" /\ hpc' = "idle" /\ ~ret'.err) =>
             (acc = <<>> /\ calls' = <<>> /\ store' = store)]_vars

\* A delete of five keys has gone through in three calls, the last of one key.
C21_Witness ==
    /\ Returned("delete") /\ ~ret.err
    /\ Len(FlattenCalls(calls)) = 2 * DeleteBatch + 1
    /\ Len(calls) = 3
    /\ \E i \in 1..Len(req.keys) :
          IsFolderKey(req.keys[i]) /\ Under(store0, req.keys[i]) # {}

\* The sizes 0 and 1536.
Bytes0 == SizeOf(0, 0, 0, 0)

Bytes1536 == SizeOf(1, 1, 512, 0)

\* a <= b, for sizes in base 1024.
SizeLeq(a, b) ==
    \/ a = b
    \/ \E k \in 1..NumDigits : a[k] < b[k] /\ \A j \in k + 1..NumDigits : a[j] = b[j]

\* The largest unit whose power of 1024 does not exceed the size, TB at most.
LargestUnit(bytes) == Min(TopDigit(bytes), Len(units) - 1)

\* C22: 0 is "0 B" and 1536 is "1.5 KB"; the unit of a size of at least 1 is
\* the largest whose power of 1024 does not exceed it, TB at most; and the
\* pair (unit index, displayed value) does not decrease when the size grows.
C22_FormatByteSizeIsMonotonic ==
    Returned("format") =>
        LET a  == req.keys[1]
            b  == req.keys[2]
            fa == ret.Entries[1]
            fb == ret.Entries[2]
        IN /\ a = Bytes0 => fa.text = <<"0", " ", "B">>
           /\ a = Bytes1536 => fa.text = <<"1", ".", "5", " ", "K", "B">>
           /\ a # Bytes0 => fa.unit = LargestUnit(a)
           /\ SizeLeq(a, b) =>
                 \/ fa.unit < fb.unit
                 \/ fa.unit = fb.unit /\ fa.tenths <= fb.tenths

\* 1024^2 - 1 bytes and 1024^2 bytes: "1024.0 KB", then "1.0 MB".
C22_Witness ==
    /\ Returned("format")
    /\ req.keys[1] = SizeOf(1, 1023, 1023, 0)
    /\ req.keys[2] = SizeOf(2, 1, 0, 0)
    /\ ret.Entries[1].text = <<"1", "0", "2", "4", ".", "0", " ", "K", "B">>
    /\ ret.Entries[2].text = <<"1", ".", "0", " ", "M", "B">>

\* The objects a rename moves: the source key, or the keys under a folder.
SourceKeys(st, sourceKey) ==
    IF IsFolderKey(sourceKey) THEN Under(st, sourceKey) ELSE {sourceKey} \cap DOMAIN st

\* The content is in the store under the key.
Holds(st, key, body) == key \in DOMAIN st /\ st[key].body = body

\* C23: during a rename and after it returned, whatever the outcome, the
\* content of every object that was under the source when the rename started
\* is in the store at its source key or at its destination key.
C23_RenameKeepsEveryContent ==
    req.op = "rename" =>
        \A k \in SourceKeys(store0, req.src) :
            \/ Holds(store, k, store0[k].body)
            \/ Holds(store, NewKey(k, req.src, req.dst), store0[k].body)

\* The call of client c returns new tokens in this step.
Rotates(c) == auth.rc[c].pc = "rotate" /\ auth'.rc[c].res = "ok"

\* C24: of two Refresh calls that present the same token at most one
\* succeeds, and the token a successful Refresh returns is the token stored
\* for its session when the call returns.
C24_OneRefreshPerToken ==
    [][\A c \in Callers :
          Rotates(c) =>
              /\ \A d \in Callers \ {c} :
                    ~(auth.rc[d].res = "ok" /\ auth.rc[d].tok = auth.rc[c].tok)
              /\ auth.rc[c].sid \in DOMAIN auth'.sessions
              /\ auth'.sessions[auth.rc[c].sid].hash = HashRefreshToken(auth'.rc[c].out)]_vars

\* How often e occurs in a sequence.
Count(seq, e) == Cardinality({i \in 1..Len(seq) : seq[i] = e})

\* The entries of a listing before they are sorted.
Grouped(st, prefix, n) ==
    LET s3Prefix == NormalizePrefix(prefix)
        g == GroupObjects(StoreListObjects(st, s3Prefix, n), s3Prefix,
                          [folders |-> <<>>, files |-> <<>>])
    IN g.folders \o g.files

\* C25: in a listing the folders come before the files, the folders are in
\* the case-insensitive order of their display names and so are the files,
\* and the listing has exactly the projected entries.
C25_ListingOrderedByName ==
    (Returned("list") /\ ~ret.err) =>
        LET E == ret.Entries
            G == Grouped(store, req.src, pageSize)
        IN /\ \A i, j \in 1..Len(E) :
                 i < j =>
                    /\ (E[i].Kind = "folder" \/ E[j].Kind = "file")
                    /\ E[i].Kind = E[j].Kind =>
                          ~StrLess(ToLower(E[j].Name), ToLower(E[i].Name))
           /\ Len(E) = Len(G)
           /\ \A i \in 1..Len(G) : Count(E, G[i]) = Count(G, G[i])

\* The keys of the listing a ListObjects call projects.
ListedKeys(st, prefix, n) ==
    {k \in Range(ResultKeys(StoreListObjects(st, NormalizePrefix(prefix), n))) :
        HasPrefix(k, NormalizePrefix(prefix))}

\* C26: a listed key whose remainder after the prefix starts with '/' gives a
\* folder entry named "(empty)", and it gives no file entry: a file entry
\* has the key of a listed object.
C26_EmptySegmentIsAFolder ==
    (Returned("list") /\ ~ret.err) =>
        LET s3Prefix == NormalizePrefix(req.src)
            E        == ret.Entries
            L        == ListedKeys(store, req.src, pageSize)
        IN \A k \in L :
              HasPrefix(TrimPrefix(k, s3Prefix), <<Slash>>) =>
                 /\ \E i \in 1..Len(E) : E[i].Kind = "folder" /\ E[i].Name = EmptyName
                 /\ \A i \in 1..Len(E) :
                       (E[i].Kind = "file"
                          /\ E[i].Name = TrimLeftSlash(TrimPrefix(k, s3Prefix))) =>
                             E[i].Key \in L

\* C27: the key of a file entry is the key of a listed object, and the key
\* of a folder entry is a prefix of the key of a listed object.
C27_EntryKeysAddressObjects ==
    (Returned("list") /\ ~ret.err) =>
        LET E == ret.Entries
            L == ListedKeys(store, req.src, pageSize)
        IN \A i \in 1..Len(E) :
              IF E[i].Kind = "file"
              THEN E[i].Key \in L
              ELSE \E k \in L : HasPrefix(k, E[i].Key)

\* A prefix is empty or ends in a slash.
Normalized(prefix) == prefix = <<>> \/ HasSuffix(prefix, <<Slash>>)

\* A folder rename is listing or copying.
FolderRenameRuns == req.op = "rename" /\ hpc \in {"ren_list", "ren_copy"}

\* C28: the prefix of a listing, the prefix of every enumeration, the prefix
\* the archive worker strips and the destination a folder rename puts in the
\* place of the source prefix are empty or end in '/'.
C28_PrefixesAreNormalized ==
    /\ req.op = "list" => Normalized(NormalizePrefix(req.src))
    /\ \A t \in Threads : la[t].status # "idle" => Normalized(la[t].prefix)
    /\ zw.pc # "none" => Normalized(zw.prefix)
    /\ FolderRenameRuns => Normalized(req.src) /\ Normalized(req.dst)

\* C29: no two entries of one archive have the same name.
C29_ArchiveNamesAreDistinct ==
    \A i, j \in 1..Len(zw.entries) :
        zw.entries[i].Name = zw.entries[j].Name => i = j

\* The worker is between two objects, or past the loop.
BetweenObjects == zw.pc \in {"loop", "zipclose", "close_wait", "done"}

\* C30: the archive worker holds at most one open object body, and none
\* when it goes on to the next object or has left the loop, whichever way
\* the object before was dealt with.
C30_OneOpenBodyAtATime ==
    /\ Cardinality(zw.open) <= 1
    /\ BetweenObjects => zw.open = {}

\* The worker has exited after an object archived, an object skipped for its
\* unsafe path and an object that left no complete entry.
C30_Witness ==
    /\ zw.pc = "done"
    /\ zw.open = {}
    /\ {kAx, kAEvil, kAEscB} \subseteq zw.fetched
    /\ \E i \in 1..Len(zw.entries) : zw.entries[i].Complete
    /\ \E k \in zw.fetched : \A i \in 1..Len(zw.entries) :
          zw.entries[i].Key = k => ~zw.entries[i].Complete

====
